---- MODULE Spec2Model ----
(***************************************************************************)
(* IPG (Israel's Parser Generator): the parser that ParseGen emits, run as *)
(* a state machine over a grammar model and an input buffer, and the       *)
(* generator's command-line driver.                                        *)
(*                                                                         *)
(* Bytes are integers 0..255; a token, a rule name, a node text or an      *)
(* input is a sequence of bytes.  Modifiers and enum values are strings.   *)
(***************************************************************************)
EXTENDS Integers, Sequences, FiniteSets, TLC

\* ------------------------------------------------------------------------
\* bounds

\* longest input buffer (bytes before the terminating NUL)
MaxLen == 3
\* bytes of memory behind the terminating NUL that a read can still reach
TailLen == 1
\* the iteration counter of a `+` element saturates here
CounterCap == 3

\* bytes an input is made of:  \n  1  2  a  b  c
Alphabet == {10, 49, 50, 97, 98, 99}
\* bytes that may lie behind the terminating NUL
TailBytes == {0, 97}

\* ------------------------------------------------------------------------
\* grammar model (class Elem, class Rule, class Grammar)

Elem(type, text, quantifier, sub_elems) ==
    [type |-> type, text |-> text, quantifier |-> quantifier,
     sub_elems |-> sub_elems]

\* every std::string is a byte sequence: a NAME element holds the identifier,
\* a STRING element the literal with its quotes, a CH_CLASS element the
\* tokens between "[" and "]" inclusive
NameElem(name, q) == Elem("NAME", <<name>>, q, <<>>)
StringElem(bytes, q) == Elem("STRING", <<(<<34>> \o bytes) \o <<34>>>>, q, <<>>)
ChClassElem(tokens, q) == Elem("CH_CLASS", (<<(<<91>>)>> \o tokens) \o <<(<<93>>)>>, q, <<>>)
GroupElem(alts, q) == Elem("GROUP", <<>>, q, alts)
AltElem(elems) == Elem("ALT", <<>>, "ONE", elems)

Rule(name, mod, elems) == [name |-> name, mod |-> mod, elems |-> elems]

\* ------------------------------------------------------------------------
\* utf8_to_int32: str is a byte sequence; a read behind its end yields the
\* terminating NUL, a byte of -1 is memory that cannot be read

At(str, i) == IF i <= Len(str) THEN str[i] ELSE 0

RECURSIVE utf8_cont(_, _, _, _)
utf8_cont(str, i, n_bytes, val) ==
    IF i > n_bytes THEN [len |-> n_bytes, num |-> val, fault |-> FALSE]
    ELSE LET byte == At(str, i)
         IN  IF byte = -1 THEN [len |-> -1, num |-> 0, fault |-> TRUE]
             ELSE IF ~(byte >= 128 /\ byte < 192)
                  THEN [len |-> -1, num |-> 0, fault |-> FALSE]
                  ELSE utf8_cont(str, i + 1, n_bytes, val * 64 + (byte % 64))

utf8_to_int32(str) ==
    LET byte == At(str, 1)
    IN  IF byte = -1 THEN [len |-> -1, num |-> 0, fault |-> TRUE]
        ELSE IF byte < 128 THEN [len |-> 1, num |-> byte, fault |-> FALSE]
        ELSE IF byte >= 192 /\ byte < 224 THEN utf8_cont(str, 2, 2, byte % 32)
        ELSE IF byte >= 224 /\ byte < 240 THEN utf8_cont(str, 2, 3, byte % 16)
        ELSE IF byte >= 240 /\ byte < 248 THEN utf8_cont(str, 2, 4, byte % 8)
        ELSE [len |-> -1, num |-> 0, fault |-> FALSE]

\* ------------------------------------------------------------------------
\* escape decoding (hex_to_int32, esc_to_int32, decode_to_int32)

hex_digit(ch) ==
    IF ch >= 48 /\ ch <= 57 THEN ch - 48
    ELSE IF ch >= 65 /\ ch <= 70 THEN ch - 65 + 10
    ELSE IF ch >= 97 /\ ch <= 102 THEN ch - 97 + 10
    ELSE -1

\* val <<= 4; val += digit; on an int32_t: the four bits shifted out are
\* lost and bit 27 becomes the sign
RECURSIVE hex_loop(_, _, _, _)
hex_loop(str, i, len, val) ==
    IF i > len THEN val
    ELSE IF hex_digit(At(str, i)) = -1 THEN -1
    ELSE LET low == val % 134217728
             high == (val % 268435456) >= 134217728
         IN  hex_loop(str, i + 1, len,
                      IF high THEN ((low * 16 + hex_digit(At(str, i))) - 2147483647) - 1
                      ELSE low * 16 + hex_digit(At(str, i)))

hex_to_int32(str, len) ==
    IF len # 4 /\ len # 8 THEN -1 ELSE hex_loop(str, 1, len, 0)

esc_to_int32(str) ==
    IF At(str, 1) # 92 THEN -1
    ELSE LET ch == At(str, 2)
         IN  CASE ch = 97 -> 7
               [] ch = 98 -> 8
               [] ch = 102 -> 12
               [] ch = 110 -> 10
               [] ch = 114 -> 13
               [] ch = 116 -> 9
               [] ch = 118 -> 11
               [] ch = 33 -> 33
               [] ch = 34 -> 34
               [] ch = 45 -> 45
               [] ch = 91 -> 91
               [] ch = 92 -> 92
               [] ch = 93 -> 93
               [] ch = 94 -> 94
               [] ch = 117 -> hex_to_int32(SubSeq(str, 3, Len(str)), 4)
               [] ch = 85 -> hex_to_int32(SubSeq(str, 3, Len(str)), 8)
               [] OTHER -> -1

decode_to_int32(str) ==
    IF At(str, 1) = 92
    THEN [escaped |-> TRUE, val |-> esc_to_int32(str)]
    ELSE LET d == utf8_to_int32(str)
         IN  [escaped |-> FALSE, val |-> IF d.len > 0 THEN d.num ELSE -1]

\* ------------------------------------------------------------------------
\* the boolean expression print_elem_inner emits for a CH_CLASS element,
\* evaluated on the decoded code point c.  Tokens are walked as the emitter
\* walks elem.text(): text()[0] is "[" and the last token is "]".

Tok(text, idx) == IF idx <= Len(text) THEN text[idx] ELSE <<>>

\* flag_negate_all: the token after "[" is an unescaped ^
flag_negate_all(text) ==
    LET d == decode_to_int32(Tok(text, 2))
    IN  d.val = 94 /\ ~d.escaped

\* one pass of either emitter loop: the ranges from token idx on, each as
\* [negate, is_range, ch1, ch2]
RECURSIVE class_ranges(_, _)
class_ranges(text, idx) ==
    IF idx >= Len(text) THEN <<>>
    ELSE LET d0 == decode_to_int32(Tok(text, idx))
             negate == d0.val = 33 /\ ~d0.escaped
             i1 == IF negate THEN idx + 1 ELSE idx
             ch1 == decode_to_int32(Tok(text, i1)).val
             d2 == decode_to_int32(Tok(text, i1 + 1))
             is_range == d2.val = 45 /\ ~d2.escaped
             ch2 == decode_to_int32(Tok(text, i1 + 2)).val
             next == IF is_range THEN i1 + 3 ELSE i1 + 1
         IN  <<[negate |-> negate, is_range |-> is_range, ch1 |-> ch1, ch2 |-> ch2]>>
             \o class_ranges(text, next)

range_expr(r, c) ==
    IF r.is_range THEN c >= r.ch1 /\ c <= r.ch2 ELSE c = r.ch1

\* (a slip: the ranges behind "!" are left out of the expression)
class_eval_without_negated(rs, negate_all, c) ==
    LET e == \E k \in 1..Len(rs) : ~rs[k].negate /\ range_expr(rs[k], c)
    IN  IF negate_all THEN ~e ELSE e

\* the emitted expression over the ranges rs: every negated range excludes c
\* and some plain range includes c; the whole is negated under [^...]
class_eval(rs, negate_all, c) ==
    LET e == /\ \A k \in 1..Len(rs) : rs[k].negate => ~range_expr(rs[k], c)
             /\ \E k \in 1..Len(rs) : ~rs[k].negate /\ range_expr(rs[k], c)
    IN  IF negate_all THEN ~e ELSE e

class_expr(text, c) ==
    class_eval(class_ranges(text, IF flag_negate_all(text) THEN 3 ELSE 2),
               flag_negate_all(text), c)

\* ------------------------------------------------------------------------
\* the C string a STRING element's token denotes once the emitted
\* `const char *str = <token>;` is compiled: quotes dropped, simple escapes
\* replaced

c_escape(ch) ==
    CASE ch = 97 -> 7
      [] ch = 98 -> 8
      [] ch = 102 -> 12
      [] ch = 110 -> 10
      [] ch = 114 -> 13
      [] ch = 116 -> 9
      [] ch = 118 -> 11
      [] OTHER -> ch

RECURSIVE c_unescape(_, _)
c_unescape(tok, i) ==
    IF i >= Len(tok) THEN <<>>
    ELSE IF tok[i] = 92 /\ i + 1 < Len(tok)
         THEN <<c_escape(tok[i + 1])>> \o c_unescape(tok, i + 2)
         ELSE <<tok[i]>> \o c_unescape(tok, i + 1)

c_str(tok) == c_unescape(tok, 2)

\* ------------------------------------------------------------------------
\* grammars the generator accepts (every NAME resolves, every rule is
\* reachable from the root), as parse_grammar builds them.  Rule names are
\* byte sequences: r = <<114>>, x = <<120>>, d = <<100>>, m = <<109>>,
\* i = <<105>>, n = <<110>>, num = <<110, 117, 109>>,
\* digit = <<100, 105, 103, 105, 116>>

\* r : "a" "b" | "c" ;
GramSeqAlt ==
    [rule_root |-> <<114>>,
     rules |-> [n \in {<<114>>} |->
        Rule(<<114>>, "", <<AltElem(<<StringElem(<<97>>, "ONE"), StringElem(<<98>>, "ONE")>>),
                        AltElem(<<StringElem(<<99>>, "ONE")>>)>>)]]

\* r : "ab" | "ac" ;
GramPrefix ==
    [rule_root |-> <<114>>,
     rules |-> [n \in {<<114>>} |->
        Rule(<<114>>, "", <<AltElem(<<StringElem(<<97, 98>>, "ONE")>>),
                        AltElem(<<StringElem(<<97, 99>>, "ONE")>>)>>)]]

\* r : "ab"? [1]? x? ("b" "c")? "c" ;  x : "a" "1" ;
GramOpt ==
    [rule_root |-> <<114>>,
     rules |-> [n \in {<<114>>, <<120>>} |->
        IF n = <<114>>
        THEN Rule(<<114>>, "", <<AltElem(<<StringElem(<<97, 98>>, "ZERO_ONE"),
                                       ChClassElem(<<(<<49>>)>>, "ZERO_ONE"),
                                       NameElem(<<120>>, "ZERO_ONE"),
                                       GroupElem(<<AltElem(<<StringElem(<<98>>, "ONE"),
                                                             StringElem(<<99>>, "ONE")>>)>>,
                                                 "ZERO_ONE"),
                                       StringElem(<<99>>, "ONE")>>)>>)
        ELSE Rule(<<120>>, "", <<AltElem(<<StringElem(<<97>>, "ONE"),
                                       StringElem(<<49>>, "ONE")>>)>>)]]

\* num : digit+ ;  digit inline : [0-9] ;
GramInline ==
    [rule_root |-> <<110, 117, 109>>,
     rules |-> [n \in {<<110, 117, 109>>, <<100, 105, 103, 105, 116>>} |->
        IF n = <<110, 117, 109>>
        THEN Rule(<<110, 117, 109>>, "", <<AltElem(<<NameElem(<<100, 105, 103, 105, 116>>, "ONE_PLUS")>>)>>)
        ELSE Rule(<<100, 105, 103, 105, 116>>, "inline",
                  <<AltElem(<<ChClassElem(<<(<<48>>), <<45>>, <<57>>>>, "ONE")>>)>>)]]

\* r : d? m* i? n ;  d discard : "a" ;  m mergeup : "b" "b" | "b" ;
\* i inline : "1" "2" ;  n : "c" | [\n] ;
GramMods ==
    [rule_root |-> <<114>>,
     rules |-> [n \in {<<114>>, <<100>>, <<109>>, <<105>>, <<110>>} |->
        CASE n = <<114>> ->
               Rule(<<114>>, "", <<AltElem(<<NameElem(<<100>>, "ZERO_ONE"), NameElem(<<109>>, "ZERO_PLUS"),
                                         NameElem(<<105>>, "ZERO_ONE"), NameElem(<<110>>, "ONE")>>)>>)
          [] n = <<100>> -> Rule(<<100>>, "discard", <<AltElem(<<StringElem(<<97>>, "ONE")>>)>>)
          [] n = <<109>> ->
               Rule(<<109>>, "mergeup", <<AltElem(<<StringElem(<<98>>, "ONE"), StringElem(<<98>>, "ONE")>>),
                                      AltElem(<<StringElem(<<98>>, "ONE")>>)>>)
          [] n = <<105>> ->
               Rule(<<105>>, "inline", <<AltElem(<<StringElem(<<49>>, "ONE"), StringElem(<<50>>, "ONE")>>)>>)
          [] n = <<110>> ->
               Rule(<<110>>, "", <<AltElem(<<StringElem(<<99>>, "ONE")>>),
                               AltElem(<<ChClassElem(<<(<<92, 110>>)>>, "ONE")>>)>>)]]

\* r : x "b" | [\n]+ "a"* ;  x : [\n] "a" ;
GramLines ==
    [rule_root |-> <<114>>,
     rules |-> [n \in {<<114>>, <<120>>} |->
        IF n = <<114>>
        THEN Rule(<<114>>, "", <<AltElem(<<NameElem(<<120>>, "ONE"), StringElem(<<98>>, "ONE")>>),
                             AltElem(<<ChClassElem(<<(<<92, 110>>)>>, "ONE_PLUS"),
                                       StringElem(<<97>>, "ZERO_PLUS")>>)>>)
        ELSE Rule(<<120>>, "", <<AltElem(<<ChClassElem(<<(<<92, 110>>)>>, "ONE"),
                                       StringElem(<<97>>, "ONE")>>)>>)]]

\* r : "b"? [^a] [1-c!b]* ;
GramNeg ==
    [rule_root |-> <<114>>,
     rules |-> [n \in {<<114>>} |->
        Rule(<<114>>, "", <<AltElem(<<StringElem(<<98>>, "ZERO_ONE"),
                                  ChClassElem(<<(<<94>>), <<97>>>>, "ONE"),
                                  ChClassElem(<<(<<49>>), <<45>>, <<99>>, <<33>>, <<98>>>>,
                                              "ZERO_PLUS")>>)>>)]]

\* r : ("a" ("b" | "c")*)+ "1"? ;
GramGroup ==
    [rule_root |-> <<114>>,
     rules |-> [n \in {<<114>>} |->
        Rule(<<114>>, "",
             <<AltElem(<<GroupElem(<<AltElem(<<StringElem(<<97>>, "ONE"),
                                               GroupElem(<<AltElem(<<StringElem(<<98>>, "ONE")>>),
                                                           AltElem(<<StringElem(<<99>>, "ONE")>>)>>,
                                                         "ZERO_PLUS")>>)>>,
                                   "ONE_PLUS"),
                         StringElem(<<49>>, "ZERO_ONE")>>)>>)]]

\* r : "ab"* "ac" | x+ ;  x : "a" r "b" | "c" ;
GramRec ==
    [rule_root |-> <<114>>,
     rules |-> [n \in {<<114>>, <<120>>} |->
        IF n = <<114>>
        THEN Rule(<<114>>, "", <<AltElem(<<StringElem(<<97, 98>>, "ZERO_PLUS"),
                                       StringElem(<<97, 99>>, "ONE")>>),
                             AltElem(<<NameElem(<<120>>, "ONE_PLUS")>>)>>)
        ELSE Rule(<<120>>, "", <<AltElem(<<StringElem(<<97>>, "ONE"), NameElem(<<114>>, "ONE"),
                                       StringElem(<<98>>, "ONE")>>),
                             AltElem(<<StringElem(<<99>>, "ONE")>>)>>)]]

\* y : x* ;  x : "a"* ;
GramZeroStar ==
    [rule_root |-> <<121>>,
     rules |-> [n \in {<<121>>, <<120>>} |->
        IF n = <<121>>
        THEN Rule(<<121>>, "", <<AltElem(<<NameElem(<<120>>, "ZERO_PLUS")>>)>>)
        ELSE Rule(<<120>>, "", <<AltElem(<<StringElem(<<97>>, "ZERO_PLUS")>>)>>)]]

\* r : ("b"?)+ "c" ;
GramZeroPlus ==
    [rule_root |-> <<114>>,
     rules |-> [n \in {<<114>>} |->
        Rule(<<114>>, "",
             <<AltElem(<<GroupElem(<<AltElem(<<StringElem(<<98>>, "ZERO_ONE")>>)>>, "ONE_PLUS"),
                         StringElem(<<99>>, "ONE")>>)>>)]]

\* r : "\n" "a" ;
GramNewline ==
    [rule_root |-> <<114>>,
     rules |-> [n \in {<<114>>} |->
        Rule(<<114>>, "", <<AltElem(<<StringElem(<<92, 110>>, "ONE"),
                                  StringElem(<<97>>, "ONE")>>)>>)]]

Grammars ==
    {GramSeqAlt, GramPrefix, GramOpt, GramInline, GramMods, GramLines, GramNeg,
     GramGroup, GramRec, GramZeroStar, GramZeroPlus, GramNewline}

\* every byte sequence of at most n bytes over S
SeqsUpTo(S, n) == UNION {[1..k -> S] : k \in 0..n}

\* ------------------------------------------------------------------------
\* state of the emitted Parser

VARIABLES
    gram,       \* the grammar model the parser was emitted from
    m_text,     \* the input, without its terminating NUL
    tail,       \* the bytes behind the terminating NUL
    m_pos, m_line, m_col,
    m_pos_ok, m_line_ok, m_col_ok,
    stack,      \* the active blocks of the emitted code, innermost last
    ev,         \* history: what the last step did
    reached     \* history: the greatest m_pos at which an element succeeded

vars == <<gram, m_text, tail, m_pos, m_line, m_col, m_pos_ok, m_line_ok, m_col_ok,
          stack, ev, reached>>

\* m_text[i], 0-based as in the emitted code; -1 where memory ends
Mem(i) ==
    IF i < Len(m_text) THEN m_text[i + 1]
    ELSE IF i = Len(m_text) THEN 0
    ELSE IF i - Len(m_text) <= Len(tail) THEN tail[i - Len(m_text)]
    ELSE -1

\* std::string(&m_text[from], to - from)
Slice(from, to) == [i \in 1..(to - from) |-> Mem(from + i - 1)]

ASTNode(pos, text, children) == [pos |-> pos, text |-> text, children |-> children]

\* ------------------------------------------------------------------------
\* blocks of the emitted code.  A frame of the stack is one active block:
\*   main : the caller of parse(), owner of the root node
\*   rule : the body of parse_<name>
\*   alts : an ***ALTERNATES*** block (depth 0 in a rule, > 0 in a group)
\*   alt  : an ***ALTERNATE*** block, holding the element being run

Top == stack[Len(stack)]
Pop(st) == SubSeq(st, 1, Len(st) - 1)

\* frame of print_rule: pos_prev/line_prev/col_prev, astn0 (its position
\* and children; a mergeup rule has no astn0 of its own);
\* entry and parent_in record the cursor and parent's children at the call
RuleFrame(rule, parent_children) ==
    [k |-> "rule", name |-> rule.name, mod |-> rule.mod,
     pos_prev |-> m_pos, line_prev |-> m_line, col_prev |-> m_col,
     astn_pos |-> m_pos, astn |-> <<>>, ok |-> FALSE, ph |-> "body",
     entry |-> [pos |-> m_pos, line |-> m_line, col |-> m_col],
     parent_in |-> parent_children]

\* frame of print_alts: ok<d>, pos_start<d>, line_start<d>, col_start<d>,
\* astn<d> (only at depth > 0); i is the alternate to run next;
\* tried records how many alternates have been left
AltsFrame(elems, depth) ==
    [k |-> "alts", depth |-> depth, alts |-> elems, i |-> 1, ok |-> FALSE,
     pos_start |-> m_pos, line_start |-> m_line, col_start |-> m_col,
     astn |-> <<>>, ph |-> "next", tried |-> 0]

\* the frame that holds the node named astn<depth-2> by code running in
\* frame i: the enclosing group's astn<d>, the enclosing rule's astn0, or,
\* through `ASTNode &astn0 = parent` of a mergeup rule, the caller's
RECURSIVE astn_of(_, _)
astn_of(st, i) ==
    IF st[i].k = "main" THEN i
    ELSE IF st[i].k = "alts" /\ st[i].depth > 0 THEN i
    ELSE IF st[i].k = "rule" /\ st[i].mod # "mergeup" THEN i
    ELSE astn_of(st, i - 1)

\* frame of print_alt: ok<d>, pos_start<d>, line_start<d>, col_start<d>;
\* j is the element being run, counter the counter<d+1> of a `+` element,
\* okin the ok<d+1> of the element's last attempt;
\* a_pos, e_pos and iters record where the alternate began, where the
\* element began and how many of the element's attempts succeeded, astn_in
\* the children astn<d-1> held when the alternate began, at_line and at_col
\* the line and column at the head of the element's last attempt
AltFrame(alt, depth) ==
    [k |-> "alt", depth |-> depth, elems |-> alt.sub_elems, j |-> 1, ok |-> FALSE,
     pos_start |-> m_pos, line_start |-> m_line, col_start |-> m_col,
     counter |-> 0, okin |-> 0, ph |-> "elem",
     a_pos |-> m_pos, e_pos |-> m_pos, iters |-> 0,
     at_line |-> m_line, at_col |-> m_col,
     astn_in |-> stack[astn_of(stack, Len(stack))].astn]

\* ASTNode::add_child on the node held by frame i
add_child(st, i, node) == [st EXCEPT ![i].astn = Append(@, node)]

\* parse_<name>(parent) is entered: prologue of print_rule and of the
\* depth-0 print_alts
call_rule(st, name) ==
    (st \o <<RuleFrame(gram.rules[name], st[astn_of(st, Len(st))].astn)>>)
    \o <<AltsFrame(gram.rules[name].elems, 0)>>

Init ==
    /\ gram \in Grammars
    /\ m_text \in SeqsUpTo(Alphabet, MaxLen)
    /\ tail \in [1..TailLen -> TailBytes]
    /\ m_pos = 0 /\ m_line = 1 /\ m_col = 1
    /\ m_pos_ok = 0 /\ m_line_ok = 1 /\ m_col_ok = 1
    /\ stack = <<[k |-> "main", astn |-> <<>>, ret |-> -1, ph |-> "begin"]>>
    /\ ev = [t |-> "init"]
    /\ reached = 0

\* int32_t parse(ASTNode &parent) { return parse_<root>(parent); }
Parse ==
    /\ Top.k = "main" /\ Top.ph = "begin"
    /\ stack' = call_rule([stack EXCEPT ![1].ph = "wait"], gram.rule_root)
    /\ ev' = [t |-> "call", name |-> gram.rule_root]
    /\ UNCHANGED <<gram, m_text, tail, m_pos, m_line, m_col, m_pos_ok, m_line_ok, m_col_ok, reached>>

\* print_alt: the next ***ALTERNATE*** block of an alternates block begins
AltBegin ==
    /\ Top.k = "alts" /\ Top.ph = "next"
    /\ stack' = stack \o <<AltFrame(Top.alts[Top.i], Top.depth + 1)>>
    /\ ev' = [t |-> "alt_begin", i |-> Top.i, block_ok |-> Top.ok,
              block_pos |-> Top.pos_start, tried |-> Top.tried]
    /\ UNCHANGED <<gram, m_text, tail, m_pos, m_line, m_col, m_pos_ok, m_line_ok, m_col_ok, reached>>

\* ------------------------------------------------------------------------
\* print_elem and print_elem_inner

CurElem == Top.elems[Top.j]

AtElem(type) ==
    /\ Top.k = "alt" /\ Top.ph \in {"elem", "iter"}
    /\ CurElem.type = type

\* the ***ALTERNATE*** frame f once an attempt of its current element has
\* begun: `ok<d-1> = false;` (and `counter<d> = 0;`) when the element
\* begins, `pos_start<d-1> = m_pos;` at the head of every attempt
attempt(f) ==
    LET g == IF f.ph = "elem"
             THEN [f EXCEPT !.ok = FALSE, !.counter = 0, !.iters = 0, !.e_pos = m_pos]
             ELSE f
    IN  [g EXCEPT !.pos_start = m_pos, !.at_line = m_line, !.at_col = m_col]

\* for (; i < strlen(str) && m_text[m_pos] == str[i]; i++, m_pos++, m_col++);
\* the final i, or -1 when the loop reads memory that cannot be read
RECURSIVE str_loop(_, _, _)
str_loop(str, i, pos) ==
    IF i >= Len(str) THEN i
    ELSE IF Mem(pos) = -1 THEN -1
    ELSE IF Mem(pos) = str[i + 1] THEN str_loop(str, i + 1, pos + 1)
    ELSE i

\* utf8_to_int32(&ch_decoded, &m_text[m_pos])
utf8_at(pos) == utf8_to_int32(<<Mem(pos), Mem(pos + 1), Mem(pos + 2), Mem(pos + 3)>>)

\* a STRING element is attempted
ElemString ==
    /\ AtElem("STRING")
    /\ LET str == c_str(CurElem.text[1])
           i == str_loop(str, 0, m_pos)
           ok == i = Len(str)
           st == [stack EXCEPT ![Len(stack)] =
                     [attempt(Top) EXCEPT !.okin = IF ok THEN 1 ELSE 0, !.ph = "ret"]]
       IN  /\ i # -1
           /\ m_pos' = m_pos + i
           /\ m_col' = m_col + i
           /\ stack' = IF ok
                       THEN add_child(st, astn_of(st, Len(st)),
                                      ASTNode(m_pos, Slice(m_pos, m_pos + i), <<>>))
                       ELSE st
           /\ ev' = [t |-> "attempt", type |-> "STRING", ok |-> ok]
    /\ UNCHANGED <<gram, m_text, tail, m_line, m_pos_ok, m_line_ok, m_col_ok, reached>>

\* the body of the emitted CH_CLASS block once the code point d is decoded
\* and the class expression has the value ok: on a match the cursor moves
\* behind the character (a newline begins a line) and its node is added
ch_class_matched(d, ok) ==
    LET st == [stack EXCEPT ![Len(stack)] =
                  [attempt(Top) EXCEPT !.okin = IF ok THEN 1 ELSE 0, !.ph = "ret"]]
    IN  /\ m_pos' = IF ok THEN m_pos + d.len ELSE m_pos
        /\ m_col' = IF ~ok THEN m_col ELSE IF d.num = 10 THEN 1 ELSE m_col + d.len
        /\ m_line' = IF ok /\ d.num = 10 THEN m_line + 1 ELSE m_line
        /\ stack' = IF ok
                    THEN add_child(st, astn_of(st, Len(st)),
                                   ASTNode(m_pos, Slice(m_pos, m_pos + d.len), <<>>))
                    ELSE st
        /\ ev' = [t |-> "attempt", type |-> "CH_CLASS", ok |-> ok]

\* a CH_CLASS element is attempted
ElemChClass ==
    /\ AtElem("CH_CLASS")
    /\ ~utf8_at(m_pos).fault
    /\ ch_class_matched(utf8_at(m_pos),
                        utf8_at(m_pos).len > 0 /\ class_expr(CurElem.text, utf8_at(m_pos).num))
    /\ UNCHANGED <<gram, m_text, tail, m_pos_ok, m_line_ok, m_col_ok, reached>>

\* a STRING or CH_CLASS attempt reads behind the memory that can be read:
\* the process is killed
Fault ==
    /\ \/ AtElem("STRING") /\ str_loop(c_str(CurElem.text[1]), 0, m_pos) = -1
       \/ AtElem("CH_CLASS") /\ utf8_at(m_pos).fault
    /\ stack' = <<[k |-> "fault", astn |-> <<>>, ret |-> -1, ph |-> "fault"]>>
    /\ ev' = [t |-> "fault"]
    /\ UNCHANGED <<gram, m_text, tail, m_pos, m_line, m_col, m_pos_ok, m_line_ok, m_col_ok, reached>>

\* a NAME element is attempted: parse_<name>(astn<d-2>) is called
ElemName ==
    /\ AtElem("NAME")
    /\ stack' = call_rule([stack EXCEPT ![Len(stack)] = [attempt(Top) EXCEPT !.ph = "wait"]],
                          CurElem.text[1])
    /\ ev' = [t |-> "call", name |-> CurElem.text[1]]
    /\ UNCHANGED <<gram, m_text, tail, m_pos, m_line, m_col, m_pos_ok, m_line_ok, m_col_ok, reached>>

\* a GROUP element is attempted: its alternates block begins
ElemGroup ==
    /\ AtElem("GROUP")
    /\ stack' = [stack EXCEPT ![Len(stack)] = [attempt(Top) EXCEPT !.ph = "wait"]]
                \o <<AltsFrame(CurElem.sub_elems, Top.depth + 1)>>
    /\ ev' = [t |-> "group"]
    /\ UNCHANGED <<gram, m_text, tail, m_pos, m_line, m_col, m_pos_ok, m_line_ok, m_col_ok, reached>>

\* (a slip: the loop is left when an attempt succeeded without moving on)
repeats_while_moving(quantifier, okin) ==
    quantifier \in {"ZERO_PLUS", "ONE_PLUS"} /\ okin # 0 /\ m_pos > Top.pos_start

\* `if (ok<d>) continue;` of `*`, `if (!ok<d>) break; counter<d>++;` of `+`:
\* does the element's loop go round again after an attempt that returned okin
repeats(quantifier, okin) ==
    quantifier \in {"ZERO_PLUS", "ONE_PLUS"} /\ okin # 0

\* (a slip: `+` asks for a second successful attempt)
elem_ok_plus_needs_two(quantifier, okin, counter) ==
    CASE quantifier = "ZERO_ONE" -> TRUE
      [] quantifier = "ZERO_PLUS" -> TRUE
      [] quantifier = "ONE_PLUS" -> counter > 1
      [] quantifier = "ONE" -> okin # 0

\* ok<d-1> when the element's loop is left
elem_ok(quantifier, okin, counter) ==
    CASE quantifier = "ZERO_ONE" -> TRUE
      [] quantifier = "ZERO_PLUS" -> TRUE
      [] quantifier = "ONE_PLUS" -> counter > 0
      [] quantifier = "ONE" -> okin # 0

\* the attempt succeeded and the element's loop goes round again; a loop
\* whose attempts succeed without moving m_pos is followed for CounterCap
\* rounds
ElemRepeat ==
    /\ Top.k = "alt" /\ Top.ph = "ret"
    /\ repeats(CurElem.quantifier, Top.okin)
    /\ m_pos > Top.pos_start \/ Top.iters < CounterCap
    /\ stack' = [stack EXCEPT ![Len(stack)] =
                    [Top EXCEPT !.ph = "iter",
                                !.counter = IF CurElem.quantifier = "ONE_PLUS"
                                            THEN (IF @ < CounterCap THEN @ + 1 ELSE @) ELSE @,
                                !.iters = IF @ < CounterCap THEN @ + 1 ELSE @]]
    /\ ev' = [t |-> "repeat"]
    /\ UNCHANGED <<gram, m_text, tail, m_pos, m_line, m_col, m_pos_ok, m_line_ok, m_col_ok, reached>>

\* the cursor a block that failed is left with, f the frame that holds the
\* block's start: m_pos = pos_start<d>; m_line = line_start<d>;
\* m_col = col_start<d>; in print_elem (of the ***ALTERNATE*** frame, as
\* <d-1>) and in print_alts
start_cursor(f) == [pos |-> f.pos_start, line |-> f.line_start, col |-> f.col_start]

\* (a slip: the furthest position is overwritten without the comparison)
furthest_unguarded(ok_cur, cur) == cur

\* if (m_pos > m_pos_ok) { m_pos_ok = m_pos; m_line_ok = m_line; m_col_ok = m_col; }
furthest(ok_cur, cur) == IF cur.pos > ok_cur.pos THEN cur ELSE ok_cur

\* the element's loop is left: ok<d-1> is set, and then either the
\* alternate is left with the cursor put back, or the furthest position is
\* updated and the alternate goes on
ElemDone ==
    /\ Top.k = "alt" /\ Top.ph = "ret"
    /\ ~repeats(CurElem.quantifier, Top.okin)
    /\ LET ok == elem_ok(CurElem.quantifier, Top.okin, Top.counter)
           n == Top.iters + (IF Top.okin # 0 THEN 1 ELSE 0)
           back == start_cursor(Top)
           far == furthest([pos |-> m_pos_ok, line |-> m_line_ok, col |-> m_col_ok],
                           [pos |-> m_pos, line |-> m_line, col |-> m_col])
       IN  /\ m_pos' = IF ok THEN m_pos ELSE back.pos
           /\ m_line' = IF ok THEN m_line ELSE back.line
           /\ m_col' = IF ok THEN m_col ELSE back.col
           /\ m_pos_ok' = IF ok THEN far.pos ELSE m_pos_ok
           /\ m_line_ok' = IF ok THEN far.line ELSE m_line_ok
           /\ m_col_ok' = IF ok THEN far.col ELSE m_col_ok
           /\ stack' = [stack EXCEPT ![Len(stack)] =
                 IF ~ok THEN [Top EXCEPT !.ok = FALSE, !.ph = "fail"]
                 ELSE IF Top.j < Len(Top.elems)
                      THEN [Top EXCEPT !.ok = TRUE, !.j = @ + 1, !.ph = "elem"]
                      ELSE [Top EXCEPT !.ok = TRUE, !.ph = "end"]]
           /\ ev' = [t |-> "elem", type |-> CurElem.type, quantifier |-> CurElem.quantifier,
                     okin |-> Top.okin, n |-> n, ok |-> ok,
                     e_pos |-> Top.e_pos, a_pos |-> Top.a_pos, pos |-> m_pos]
           /\ reached' = IF ok /\ m_pos > reached THEN m_pos ELSE reached
    /\ UNCHANGED <<gram, m_text, tail>>

\* ------------------------------------------------------------------------
\* ends of the blocks

\* (a slip: the break behind an alternate is missing)
alts_break_missing(ok) == FALSE

\* `if (ok<d>) break;` behind every ***ALTERNATE*** block of print_alts
alts_break(ok) == ok

\* an ***ALTERNATE*** block is left, by `ok<d-1> = ok<d>; break;` behind its
\* last element or by the `break;` of an element that failed; the
\* alternates block then ends or goes on to its next alternate
AltEnd ==
    /\ Top.k = "alt" /\ Top.ph \in {"end", "fail"}
    /\ LET b == stack[Len(stack) - 1]
           ok == IF Top.ph = "end" THEN Top.ok ELSE b.ok
           more == ~alts_break(ok) /\ b.i < Len(b.alts)
       IN  /\ stack' = [Pop(stack) EXCEPT ![Len(stack) - 1] =
                           [b EXCEPT !.ok = ok, !.tried = @ + 1,
                                     !.i = IF more THEN @ + 1 ELSE @,
                                     !.ph = IF more THEN "next" ELSE "done"]]
           /\ ev' = [t |-> "alt_end", ok |-> ok, completed |-> Top.ph = "end",
                     astn_in |-> Top.astn_in,
                     astn_out |-> stack[astn_of(stack, Len(stack))].astn]
    /\ UNCHANGED <<gram, m_text, tail, m_pos, m_line, m_col, m_pos_ok, m_line_ok, m_col_ok, reached>>

\* for (auto child<d> : astn<d>.children()) astn<d-2>.add_child(child<d>);
RECURSIVE add_children(_, _, _, _)
add_children(st, i, children, c) ==
    IF c > Len(children) THEN st
    ELSE add_children(add_child(st, i, children[c]), i, children, c + 1)

\* the tail of print_alts: on failure the cursor is put back, on success
\* (in a group) the collected children are handed to astn<d-2>; the result
\* is ok<d>, read by the group element or by the rule's epilogue
AltsEnd ==
    /\ Top.k = "alts" /\ Top.ph = "done"
    /\ LET f == Top
           back == start_cursor(f)
           st1 == Pop(stack)
           st2 == IF f.ok /\ f.depth > 0
                  THEN add_children(st1, astn_of(st1, Len(st1)), f.astn, 1)
                  ELSE st1
       IN  /\ m_pos' = IF f.ok THEN m_pos ELSE back.pos
           /\ m_line' = IF f.ok THEN m_line ELSE back.line
           /\ m_col' = IF f.ok THEN m_col ELSE back.col
           /\ stack' = [st2 EXCEPT ![Len(st2)] =
                 IF f.depth > 0
                 THEN [@ EXCEPT !.okin = IF f.ok THEN 1 ELSE 0, !.ph = "ret"]
                 ELSE [@ EXCEPT !.ok = f.ok, !.ph = "epilogue"]]
           /\ ev' = [t |-> "alts_end", ok |-> f.ok, depth |-> f.depth]
    /\ UNCHANGED <<gram, m_text, tail, m_pos_ok, m_line_ok, m_col_ok, reached>>

\* (a slip: line and column are exchanged when the cursor is put back)
rule_fail_cursor_swapped(f) == [pos |-> f.pos_prev, line |-> f.col_prev, col |-> f.line_prev]

\* the cursor a failed rule leaves: m_pos = pos_prev; m_line = line_prev;
\* m_col = col_prev;
rule_fail_cursor(f) == [pos |-> f.pos_prev, line |-> f.line_prev, col |-> f.col_prev]

\* (a slip: discard is left out of the test)
rule_adds_node_discard_too(mod) == mod # "inline" /\ mod # "mergeup"

\* does a rule that succeeded run parent.add_child(astn0)
rule_adds_node(mod) == mod # "discard" /\ mod # "inline" /\ mod # "mergeup"

\* RET_FAIL 0, RET_OK 1, RET_INLINE 2
rule_ret(mod, ok) == IF ok THEN (IF mod = "inline" THEN 2 ELSE 1) ELSE 0

\* (a slip: the synthetic node spans from where the element began)
inline_wrap_from_elem(st, mod, ret, pos) ==
    IF mod = "inline" /\ ret = 2
    THEN add_child(st, astn_of(st, Len(st)),
                   ASTNode(st[Len(st)].e_pos, Slice(st[Len(st)].e_pos, pos), <<>>))
    ELSE st

\* behind the call in print_elem_inner, for a rule whose modifier is
\* inline: if (RET_INLINE == ok<d>) astn<d-2>.add_child(
\*     ASTNode(pos_start<d-1>, text[pos_start<d-1>, m_pos)))
inline_wrap(st, mod, ret, pos) ==
    IF mod = "inline" /\ ret = 2
    THEN add_child(st, astn_of(st, Len(st)),
                   ASTNode(st[Len(st)].pos_start, Slice(st[Len(st)].pos_start, pos), <<>>))
    ELSE st

\* the epilogue of parse_<name>: cursor put back on failure, astn0 attached
\* to parent on success of a rule without modifier, the return value handed
\* to the caller
RuleRet ==
    /\ Top.k = "rule" /\ Top.ph = "epilogue"
    /\ LET f == Top
           back == rule_fail_cursor(f)
           ret == rule_ret(f.mod, f.ok)
           pos == IF f.ok THEN m_pos ELSE back.pos
           st1 == Pop(stack)
           st2 == IF f.ok /\ rule_adds_node(f.mod)
                  THEN add_child(st1, astn_of(st1, Len(st1)),
                                 ASTNode(f.astn_pos, f.name, f.astn))
                  ELSE st1
           st3 == IF st2[Len(st2)].k = "main"
                  THEN [st2 EXCEPT ![Len(st2)] = [@ EXCEPT !.ret = ret, !.ph = "ret"]]
                  ELSE inline_wrap([st2 EXCEPT ![Len(st2)] =
                                       [@ EXCEPT !.okin = ret, !.ph = "ret"]],
                                   f.mod, ret, pos)
       IN  /\ m_pos' = pos
           /\ m_line' = IF f.ok THEN m_line ELSE back.line
           /\ m_col' = IF f.ok THEN m_col ELSE back.col
           /\ stack' = st3
           /\ ev' = [t |-> "rule_ret", name |-> f.name, mod |-> f.mod, ret |-> ret,
                     entry |-> f.entry, astn |-> f.astn,
                     parent_in |-> f.parent_in,
                     parent_body |-> st1[astn_of(st1, Len(st1))].astn,
                     parent_out |-> st2[astn_of(st2, Len(st2))].astn]
    /\ UNCHANGED <<gram, m_text, tail, m_pos_ok, m_line_ok, m_col_ok, reached>>

Next ==
    \/ Parse
    \/ AltBegin
    \/ ElemString
    \/ ElemChClass
    \/ ElemName
    \/ ElemGroup
    \/ Fault
    \/ ElemRepeat
    \/ ElemDone
    \/ AltEnd
    \/ AltsEnd
    \/ RuleRet

Spec == Init /\ [][Next]_vars

\* ------------------------------------------------------------------------
\* ParseGen, the grammar parser of the generator.  T is the buffer main
\* hands to parse_grammar (the file's bytes, NUL behind them); a cursor s is
\* [pos, line, col] together with err, what has been written to stderr.
\* Every parse_* operator yields Res(s, len, out): the cursor it leaves, the
\* length it returns (-1 on failure) and the vector it was given to fill.

\* char ch = m_text[i]: a signed char, NUL at the end of the buffer
gch(T, i) ==
    IF i < Len(T) THEN (IF T[i + 1] >= 128 THEN T[i + 1] - 256 ELSE T[i + 1]) ELSE 0

\* std::string(&m_text[from], len)
gstr(T, from, len) == SubSeq(T, from + 1, from + len)

Res(s, len, out) == [s |-> s, len |-> len, out |-> out]

\* m_pos += n; m_col += n;
adv(s, n) == [s EXCEPT !.pos = @ + n, !.col = @ + n]

\* m_pos = pos_prev; m_col = col_prev; m_line = line_prev;
restore(s, prev) == [s EXCEPT !.pos = prev.pos, !.line = prev.line, !.col = prev.col]

\* eprintln(...)
eprintln(s, msg) == [s EXCEPT !.err = Append(@, msg)]

\* (a slip: a carriage return advances the column as a blank does)
RECURSIVE parse_ws_cr_counts(_, _)
parse_ws_cr_counts(T, s) ==
    IF gch(T, s.pos) \in {32, 9, 13}
    THEN parse_ws_cr_counts(T, adv(s, 1))
    ELSE IF gch(T, s.pos) = 10
    THEN parse_ws_cr_counts(T, [s EXCEPT !.pos = @ + 1, !.line = @ + 1, !.col = 1])
    ELSE s

RECURSIVE parse_ws(_, _)
parse_ws(T, s) ==
    IF gch(T, s.pos) \in {32, 9}
    THEN parse_ws(T, adv(s, 1))
    ELSE IF gch(T, s.pos) = 13
    THEN parse_ws(T, [s EXCEPT !.pos = @ + 1])
    ELSE IF gch(T, s.pos) = 10
    THEN parse_ws(T, [s EXCEPT !.pos = @ + 1, !.line = @ + 1, !.col = 1])
    ELSE s

\* the for (;;) of parse_comment: step, then look at the byte
RECURSIVE comment_loop(_, _)
comment_loop(T, s) ==
    IF gch(T, s.pos + 1) \in {13, 10, 0}
    THEN adv(s, 1)
    ELSE comment_loop(T, adv(s, 1))

parse_comment(T, s) == IF gch(T, s.pos) # 35 THEN s ELSE comment_loop(T, s)

\* do { m_pos_prev = m_pos; parse_comment(); parse_ws(); }
\* while (m_text[m_pos] != '\0' && m_pos_prev != m_pos);
RECURSIVE comments_ws(_, _)
comments_ws(T, s) ==
    LET n == parse_ws(T, parse_comment(T, s))
    IN  IF gch(T, n.pos) # 0 /\ s.pos # n.pos THEN comments_ws(T, n) ELSE n

is_alpha(ch) == (ch >= 65 /\ ch <= 90) \/ (ch >= 97 /\ ch <= 122)

is_id_char(ch) == ch = 95 \/ (ch >= 48 /\ ch <= 57) \/ is_alpha(ch)

RECURSIVE id_loop(_, _, _)
id_loop(T, s, len) ==
    IF is_id_char(gch(T, s.pos)) THEN id_loop(T, adv(s, 1), len + 1)
    ELSE Res(s, len, <<>>)

parse_id(T, s) ==
    IF ~is_alpha(gch(T, s.pos)) THEN Res(s, -1, <<>>) ELSE id_loop(T, adv(s, 1), 1)

is_hex_char(ch) ==
    (ch >= 48 /\ ch <= 57) \/ (ch >= 65 /\ ch <= 70) \/ (ch >= 97 /\ ch <= 102)

\* (uint8_t)m_text[i]
gbyte(T, i) == IF i < Len(T) THEN T[i + 1] ELSE 0

\* n_bytes of parse_utf8_char from the first byte, -1 when it is no lead
utf8_n_bytes(byte) ==
    IF byte < 128 THEN 1
    ELSE IF byte >= 192 /\ byte < 224 THEN 2
    ELSE IF byte >= 224 /\ byte < 240 THEN 3
    ELSE IF byte >= 240 /\ byte < 248 THEN 4
    ELSE -1

\* one byte is taken as it is; of a longer sequence every byte, the first
\* too, must pass (byte & 0xc0) == 0xc0
parse_utf8_char(T, pos) ==
    LET n_bytes == utf8_n_bytes(gbyte(T, pos))
    IN  IF n_bytes <= 1 THEN n_bytes
        ELSE IF \A i \in 0..(n_bytes - 1) : gbyte(T, pos + i) >= 192 THEN n_bytes
        ELSE -1

\* "!-[\\]^"
ch_class_reserve_chars == {33, 45, 91, 92, 93, 94}

\* "!-[\\]^abfnrtv"
esc_chars == {33, 45, 91, 92, 93, 94, 97, 98, 102, 110, 114, 116, 118}

\* for (; i < n && is_hex_char(m_text[m_pos]); i++, m_pos++, m_col++);
RECURSIVE hex_run(_, _, _, _)
hex_run(T, s, i, n) ==
    IF i < n /\ is_hex_char(gch(T, s.pos)) THEN hex_run(T, adv(s, 1), i + 1, n)
    ELSE Res(s, i, <<>>)

\* the end of a \u or \U escape of n hex digits, h its hex_run
parse_char_hex(T, text, n, h) ==
    IF h.len < n THEN Res(h.s, -1, text)
    ELSE Res(h.s, n + 2, Append(text, gstr(T, h.s.pos - (n + 2), n + 2)))

\* parse_char behind a backslash, s at the byte that follows it
parse_char_esc(T, s, text) ==
    IF gch(T, s.pos) >= 0 /\ gch(T, s.pos) < 32 THEN Res(s, -1, text)
    ELSE IF gch(T, s.pos) \in esc_chars
    THEN Res(adv(s, 1), 2, Append(text, gstr(T, s.pos - 1, 2)))
    ELSE IF gch(T, s.pos) = 117 THEN parse_char_hex(T, text, 4, hex_run(T, adv(s, 1), 0, 4))
    ELSE IF gch(T, s.pos) = 85 THEN parse_char_hex(T, text, 8, hex_run(T, adv(s, 1), 0, 8))
    ELSE Res(s, -1, text)

parse_char(T, s, text) ==
    IF gch(T, s.pos) >= 0 /\ gch(T, s.pos) < 32 THEN Res(s, -1, text)
    ELSE IF gch(T, s.pos) < 0
    THEN LET len == parse_utf8_char(T, s.pos)
         IN  IF len < 0 THEN Res(s, -1, text)
             ELSE Res(adv(s, len), len, Append(text, gstr(T, s.pos, len)))
    ELSE IF gch(T, s.pos) = 92 THEN parse_char_esc(T, adv(s, 1), text)
    ELSE Res(adv(s, 1), 1, Append(text, gstr(T, s.pos, 1)))

\* the order check of parse_ch_class_range: text()[1] and text()[3] are
\* decoded and the range is refused unless the first is below the second
range_order(c1_len, c2) ==
    IF decode_to_int32(c2.out[2]).val >= decode_to_int32(c2.out[4]).val
    THEN Res(eprintln(c2.s, [msg |-> "ERROR: invalid range", ch1 |-> c2.out[2],
                             ch2 |-> c2.out[4]]),
             -1, c2.out)
    ELSE Res(c2.s, (c1_len + 1) + c2.len, c2.out)

\* behind the second parse_char of a range; ch is the byte that was read
\* before it
range_second(c1_len, ch, c2) ==
    IF c2.len < 0 THEN Res(c2.s, -1, c2.out)
    ELSE IF c2.len = 1 /\ ch \in ch_class_reserve_chars THEN Res(c2.s, -1, c2.out)
    ELSE range_order(c1_len, c2)

\* behind the "-" of a range, s at the byte that follows it
range_dash(T, s, text, c1_len) ==
    IF gch(T, s.pos) = 93 THEN Res(s, -1, text)
    ELSE range_second(c1_len, gch(T, s.pos), parse_char(T, s, text))

\* behind the first parse_char of a range
range_first(T, c1) ==
    IF c1.len < 0 THEN Res(c1.s, -1, c1.out)
    ELSE IF c1.len = 1 /\ c1.out[Len(c1.out)][1] \in ch_class_reserve_chars
    THEN Res(eprintln(c1.s, [msg |-> "###*", ch |-> c1.out[Len(c1.out)][1]]), -1, c1.out)
    ELSE IF gch(T, c1.s.pos) # 45 THEN c1
    ELSE range_dash(T, adv(c1.s, 1), Append(c1.out, <<45>>), c1.len)

parse_ch_class_range(T, s, text) ==
    IF gch(T, s.pos) = 93 THEN Res(s, -1, text)
    ELSE range_first(T, parse_char(T, s, text))

\* the loop of additional ranges in parse_ch_class; len is the length so far
RECURSIVE ch_class_more(_, _, _, _)
\* behind the parse_ch_class_range of one round; s the cursor where the
\* round began, bang whether a "!" was taken (and how many pop_back undo
\* it), r the range
ch_class_more_range(T, s, len, bang, r) ==
    IF r.len = -1 THEN Res(restore(r.s, s), len, SubSeq(r.out, 1, Len(r.out) - bang))
    ELSE ch_class_more(T, r.s, (len + bang) + r.len, r.out)

\* (a slip: the "!" before a range is not taken)
ch_class_more_no_bang(T, s, len, text) ==
    IF gch(T, s.pos) = 93 THEN Res(s, len, text)
    ELSE ch_class_more_range(T, s, len, 0, parse_ch_class_range(T, s, text))

ch_class_more(T, s, len, text) ==
    IF gch(T, s.pos) = 93 THEN Res(s, len, text)
    ELSE IF gch(T, s.pos) = 33
    THEN ch_class_more_range(T, s, len, 1,
                             parse_ch_class_range(T, adv(s, 1), Append(text, <<33>>)))
    ELSE ch_class_more_range(T, s, len, 0, parse_ch_class_range(T, s, text))

\* the end of parse_ch_class: prev the cursor on entry, m the ranges
ch_class_close(T, prev, elems, m) ==
    IF gch(T, m.s.pos) # 93 \/ m.len <= 0 THEN Res(restore(m.s, prev), -1, elems)
    ELSE Res(adv(m.s, 1), m.len + 1,
             Append(elems, Elem("CH_CLASS", Append(m.out, <<93>>), "ONE", <<>>)))

\* behind the first, required range; len counts "[" and "^"
ch_class_first(T, prev, elems, len, r) ==
    IF r.len = -1 THEN Res(restore(r.s, prev), -1, elems)
    ELSE ch_class_close(T, prev, elems, ch_class_more(T, r.s, len + r.len, r.out))

parse_ch_class(T, s, elems) ==
    IF gch(T, s.pos) # 91 THEN Res(s, -1, elems)
    ELSE IF gch(T, s.pos + 1) = 94
    THEN ch_class_first(T, s, elems, 2,
                        parse_ch_class_range(T, adv(s, 2), <<(<<91>>), <<94>>>>))
    ELSE ch_class_first(T, s, elems, 1, parse_ch_class_range(T, adv(s, 1), <<(<<91>>)>>))

\* for (;; m_pos++, m_col++, len++) of parse_string: the cursor and length
\* behind the closing quote, or length -1 when a byte below ' ' ends it
RECURSIVE string_loop(_, _, _, _)
string_loop(T, s, len, esc_set) ==
    IF gch(T, s.pos) < 32 THEN Res(s, -1, <<>>)
    ELSE IF gch(T, s.pos) = 92 /\ ~esc_set THEN string_loop(T, adv(s, 1), len + 1, TRUE)
    ELSE IF gch(T, s.pos) = 34 /\ ~esc_set THEN Res(adv(s, 1), len + 1, <<>>)
    ELSE string_loop(T, adv(s, 1), len + 1, FALSE)

parse_string_end(T, prev, elems, r) ==
    IF r.len = -1 THEN Res(restore(r.s, prev), -1, elems)
    ELSE Res(r.s, r.len,
             Append(elems, Elem("STRING", <<gstr(T, r.s.pos - r.len, r.len)>>, "ONE", <<>>)))

parse_string(T, s, elems) ==
    IF gch(T, s.pos) # 34 THEN Res(s, -1, elems)
    ELSE parse_string_end(T, s, elems, string_loop(T, adv(s, 1), 1, FALSE))

RECURSIVE parse_alts(_, _, _, _, _)
RECURSIVE parse_alt(_, _, _, _)
RECURSIVE parse_element(_, _, _, _)

\* if (len <= 0 || trailing_bar) return -1; return len;
parse_alts_ret(s, elems, len, trailing_bar) ==
    IF len <= 0 \/ trailing_bar THEN Res(s, -1, elems) ELSE Res(s, len, elems)

\* behind the parse_ws that follows an alternate
parse_alts_bar(T, s, elems, len) ==
    IF gch(T, s.pos) = 124
    THEN parse_alts(T, parse_ws(T, adv(s, 1)), elems, len + 1, TRUE)
    ELSE parse_alts_ret(s, elems, len, FALSE)

\* behind the parse_alt of one round, a what it gave
parse_alts_alt(T, elems, len, trailing_bar, a) ==
    IF a.len = -1 THEN parse_alts_ret(a.s, elems, len, trailing_bar)
    ELSE parse_alts_bar(T, parse_ws(T, a.s),
                        Append(elems, Elem("ALT", <<>>, "ONE", a.out)), len + a.len)

\* parse_alts from the head of its while (m_text[m_pos] != '\0'), len and
\* trailing_bar its locals; it is entered with len 0, and with a
\* trailing_bar that is read only behind an alternate, which has assigned it
parse_alts(T, s, elems, len, trailing_bar) ==
    IF gch(T, s.pos) = 0 THEN parse_alts_ret(s, elems, len, trailing_bar)
    ELSE parse_alts_alt(T, elems, len, trailing_bar, parse_alt(T, s, <<>>, 0))

\* if (len <= 0) return -1; return len;
parse_alt_ret(s, elems, len) ==
    IF len <= 0 THEN Res(s, -1, elems) ELSE Res(s, len, elems)

\* behind the parse_element of one round, e what it gave
parse_alt_elem(T, len, e) ==
    IF e.len <= 0 THEN parse_alt_ret(e.s, e.out, len)
    ELSE parse_alt(T, parse_ws(T, e.s), e.out, len + e.len)

\* parse_alt from the head of its while (m_text[m_pos] != '\0'), len its
\* local; it is entered with len 0
parse_alt(T, s, elems, len) ==
    IF gch(T, s.pos) = 0 THEN parse_alt_ret(s, elems, len)
    ELSE parse_alt_elem(T, len, parse_element(T, s, elems, 0))

\* the end of parse_group: a the alternates, s behind the parse_ws
parse_group_close(T, s, elems, a) ==
    IF gch(T, s.pos) # 41 THEN Res(s, -1, elems)
    ELSE Res(adv(s, 1), (1 + a.len) + 1, Append(elems, Elem("GROUP", <<>>, "ONE", a.out)))

\* behind the parse_alts of parse_group; no failure puts the cursor back
parse_group_alts(T, elems, a) ==
    IF a.len < 0 THEN Res(a.s, -1, elems)
    ELSE parse_group_close(T, parse_ws(T, a.s), elems, a)

parse_group(T, s, elems) ==
    IF gch(T, s.pos) # 40 THEN Res(s, -1, elems)
    ELSE parse_group_alts(T, elems, parse_alts(T, parse_ws(T, adv(s, 1)), <<>>, 0, FALSE))

\* the item of parse_element: group, id, ch_class, string, the first that
\* succeeds; each is tried where the one before left the cursor
parse_item_class(T, c) == IF c.len > 0 THEN c ELSE parse_string(T, c.s, c.out)

parse_item_id(T, elems, d) ==
    IF d.len > 0
    THEN Res(d.s, d.len, Append(elems, Elem("NAME", <<gstr(T, d.s.pos - d.len, d.len)>>,
                                            "ONE", <<>>)))
    ELSE parse_item_class(T, parse_ch_class(T, d.s, elems))

parse_item_group(T, g) == IF g.len > 0 THEN g ELSE parse_item_id(T, g.out, parse_id(T, g.s))

\* qt from ch, one of ? * +; elems[elems.size() - 1].quantifier() = qt;
set_quantifier(elems, ch) ==
    [elems EXCEPT ![Len(elems)].quantifier = CASE ch = 63 -> "ZERO_ONE"
                                                [] ch = 42 -> "ZERO_PLUS"
                                                [] ch = 43 -> "ONE_PLUS"]

\* if (len_item <= 0) break;  and the head of the while loop
parse_element_next(T, s, elems, len, len_item) ==
    IF len_item <= 0 THEN Res(s, len, elems) ELSE parse_element(T, s, elems, len)

\* behind the parse_ws that follows an item: the optional quantifier
parse_element_quant(T, s, elems, len, len_item) ==
    IF gch(T, s.pos) \in {63, 42, 43}
    THEN parse_element_next(T, parse_ws(T, adv(s, 1)),
                            set_quantifier(elems, gch(T, s.pos)),
                            len + 1, len_item)
    ELSE parse_element_next(T, s, elems, len, len_item)

\* behind the item, r what it gave: a positive length was added to len
parse_element_item(T, len, r) ==
    IF r.len > 0
    THEN parse_element_quant(T, parse_ws(T, r.s), r.out, len + r.len, r.len)
    ELSE IF len <= 0 THEN Res(r.s, -1, r.out)
    ELSE parse_element_quant(T, parse_ws(T, r.s), r.out, len, r.len)

\* parse_element from the head of its
\* while (m_text[m_pos] != ';' && m_text[m_pos] != '\0'), len its local; it
\* is entered with len 0
parse_element(T, s, elems, len) ==
    IF gch(T, s.pos) = 59 \/ gch(T, s.pos) = 0 THEN Res(s, len, elems)
    ELSE parse_element_item(T, len, parse_item_group(T, parse_group(T, s, elems)))

\* ------------------------------------------------------------------------
\* parse_rule and parse_grammar, on the grammar g being built

\* ParseGen() { m_grammar.clear(); }
EmptyGrammar == [rule_root |-> <<>>, rules |-> [n \in {} |-> Rule(<<>>, "", <<>>)]]

\* m_grammar.rules()[name] = rule;
put_rule(g, name, rule) ==
    [g EXCEPT !.rules = [n \in (DOMAIN g.rules) \cup {name} |->
                            IF n = name THEN rule ELSE g.rules[n]]]

\* what parse_rule hands back: its return value, the cursor, the grammar
RuleRes(ok, s, g) == [ok |-> ok, s |-> s, g |-> g]

\* (a slip: an identifier that is none of the keywords is taken as it is)
ModOf_any(rule_mod) ==
    CASE rule_mod = <<100, 105, 115, 99, 97, 114, 100>> -> "discard"
      [] rule_mod = <<105, 110, 108, 105, 110, 101>> -> "inline"
      [] rule_mod = <<109, 101, 114, 103, 101, 117, 112>> -> "mergeup"
      [] OTHER -> "other"

\* the identifier in the modifier slot, "?" when it is none of the keywords
ModOf(rule_mod) ==
    CASE rule_mod = <<100, 105, 115, 99, 97, 114, 100>> -> "discard"
      [] rule_mod = <<105, 110, 108, 105, 110, 101>> -> "inline"
      [] rule_mod = <<109, 101, 114, 103, 101, 117, 112>> -> "mergeup"
      [] OTHER -> "?"

\* behind the parse_ws that follows the alternates: ";" and what trails it
parse_rule_semi(T, s, g) ==
    IF gch(T, s.pos) # 59 THEN RuleRes(FALSE, s, g)
    ELSE RuleRes(TRUE, comments_ws(T, parse_ws(T, adv(s, 1))), g)

\* behind parse_alts, which filled the rule's elems whatever it returned
parse_rule_alts(T, g, name, a) ==
    IF a.len = -1 THEN RuleRes(FALSE, a.s, [g EXCEPT !.rules[name].elems = a.out])
    ELSE parse_rule_semi(T, parse_ws(T, a.s), [g EXCEPT !.rules[name].elems = a.out])

\* behind the parse_ws that follows the modifier slot: ":" and the alternates
parse_rule_colon(T, s, g, name) ==
    IF gch(T, s.pos) # 58 THEN RuleRes(FALSE, s, g)
    ELSE parse_rule_alts(T, g, name, parse_alts(T, parse_ws(T, adv(s, 1)), <<>>, 0, FALSE))

\* behind the parse_id of the modifier slot, d what it gave
parse_rule_mod(T, g, name, d) ==
    IF d.len <= 0 THEN parse_rule_colon(T, parse_ws(T, d.s), g, name)
    ELSE IF ModOf(gstr(T, d.s.pos - d.len, d.len)) = "?" THEN RuleRes(FALSE, d.s, g)
    ELSE parse_rule_colon(T, parse_ws(T, d.s),
                          [g EXCEPT !.rules[name].mod = ModOf(gstr(T, d.s.pos - d.len, d.len))],
                          name)

\* (a slip: a name that is defined already is given a new Rule)
parse_rule_id_overwrites(T, g, d) ==
    LET rule_name == gstr(T, d.s.pos - d.len, d.len)
        rooted == [g EXCEPT !.rule_root = IF @ = <<>> THEN rule_name ELSE @]
    IN  IF d.len <= 0 THEN RuleRes(FALSE, d.s, g)
        ELSE parse_rule_mod(T, put_rule(rooted, rule_name, Rule(rule_name, "", <<>>)),
                            rule_name, parse_id(T, parse_ws(T, d.s)))

\* behind the parse_id of the rule name, d what it gave: the first name is
\* the root, a name that is defined already is refused, a Rule is stored
parse_rule_id(T, g, d) ==
    LET rule_name == gstr(T, d.s.pos - d.len, d.len)
        rooted == [g EXCEPT !.rule_root = IF @ = <<>> THEN rule_name ELSE @]
    IN  IF d.len <= 0 THEN RuleRes(FALSE, d.s, g)
        ELSE IF rule_name \in DOMAIN g.rules
        THEN RuleRes(FALSE,
                     eprintln(d.s, [msg |-> "ERROR: duplicate rule name", name |-> rule_name]),
                     rooted)
        ELSE parse_rule_mod(T, put_rule(rooted, rule_name, Rule(rule_name, "", <<>>)),
                            rule_name, parse_id(T, parse_ws(T, d.s)))

parse_rule(T, s, g) == parse_rule_id(T, g, parse_id(T, parse_ws(T, s)))

\* parse_grammar up to its loop of rules: parse_ws and (comment ws)*
parse_grammar_head(T, s) == comments_ws(T, parse_ws(T, s))

\* ------------------------------------------------------------------------
\* check_rules

\* std::string's order, byte by byte
RECURSIVE str_lt(_, _)
str_lt(a, b) ==
    IF b = <<>> THEN FALSE
    ELSE IF a = <<>> THEN TRUE
    ELSE IF a[1] # b[1] THEN a[1] < b[1]
    ELSE str_lt(Tail(a), Tail(b))

\* the keys of a std::map in the order its iteration yields them
RECURSIVE keys_in_order(_)
keys_in_order(S) ==
    IF S = {} THEN <<>>
    ELSE LET first == CHOOSE x \in S : \A y \in S : x = y \/ str_lt(x, y)
         IN  <<first>> \o keys_in_order(S \ {first})

\* (a slip: the sub elems are not walked)
elem_names_top_only(elem) == IF elem.type = "NAME" THEN {elem.text[1]} ELSE {}

\* check_rule_elems: the names of the NAME elements in elem and below it
RECURSIVE elem_names(_)
elem_names(elem) ==
    (IF elem.type = "NAME" THEN {elem.text[1]} ELSE {})
    \cup UNION {elem_names(elem.sub_elems[i]) : i \in 1..Len(elem.sub_elems)}

\* the names in the elems of rule n; m_grammar.rules()[n] of a name that is
\* not defined is a Rule without elems
rule_names(g, n) ==
    IF n \in DOMAIN g.rules
    THEN UNION {elem_names(g.rules[n].elems[i]) : i \in 1..Len(g.rules[n].elems)}
    ELSE {}

\* m_grammar.rules()[rule_name] of a name that is not defined inserts Rule()
RECURSIVE put_undefined(_, _, _)
put_undefined(g, undefined, i) ==
    IF i > Len(undefined) THEN g
    ELSE put_undefined(put_rule(g, undefined[i], Rule(<<>>, "", <<>>)), undefined, i + 1)

\* behind the while loop, v what it gave and g2 the grammar it left: the
\* rules that were not visited are reported, and the return value is false
\* when a rule was undefined or not visited
check_rules_end(g2, v) ==
    LET unreachable == IF Cardinality(DOMAIN g2.rules) > Cardinality(v.visited)
                       THEN keys_in_order((DOMAIN g2.rules) \ v.visited) ELSE <<>>
    IN  [ok |-> v.undefined = <<>> /\ ~(Cardinality(DOMAIN g2.rules) > Cardinality(v.visited)),
         g |-> g2,
         err |-> [i \in 1..Len(v.undefined) |->
                     [msg |-> "ERROR: undefined rule", name |-> v.undefined[i]]]
                 \o [i \in 1..Len(unreachable) |->
                        [msg |-> "ERROR: unreachable rule", name |-> unreachable[i]]]]

\* the while loop of check_rules, one round per call, v its result so far
\* (visited, and the undefined rules in the order they are reported): every
\* rule of to_visit is marked visited, reported when it is not defined, and
\* the names its elems refer to make the next to_visit, the visited erased
RECURSIVE check_visit(_, _, _)
check_visit(g, to_visit, v) ==
    IF to_visit = {} THEN check_rules_end(put_undefined(g, v.undefined, 1), v)
    ELSE check_visit(g,
                     (UNION {rule_names(g, n) : n \in to_visit}) \ (v.visited \cup to_visit),
                     [visited |-> v.visited \cup to_visit,
                      undefined |-> v.undefined \o keys_in_order(to_visit \ DOMAIN g.rules)])

\* (a slip: a grammar without rules passes)
check_rules_empty_passes(g) ==
    IF DOMAIN g.rules = {} THEN [ok |-> TRUE, g |-> g, err |-> <<>>]
    ELSE check_visit(g, {g.rule_root}, [visited |-> {}, undefined |-> <<>>])

check_rules(g) == check_visit(g, {g.rule_root}, [visited |-> {}, undefined |-> <<>>])

\* ------------------------------------------------------------------------
\* main of the generator.  The process is the one frame of stack: pc is the
\* statement main is at, argc, fopen_ok and file are what its environment
\* gives it, out and err are what it has written to stdout and stderr, exit
\* is its exit status (-1 while it runs); parse_ret and check_ret record
\* what parse_grammar and check_rules returned.  gram is m_grammar, m_text,
\* m_pos, m_line and m_col are the members of ParseGen.

\* contents of the grammar file: what fread leaves in buf
GrammarTexts ==
    {
      \* an empty file
      <<>>,
      \*  \n# c
      <<32, 10, 35, 32, 99>>,
      \* r:"a";
      <<114, 58, 34, 97, 34, 59>>,
      \* r : x;
      <<114, 32, 58, 32, 120, 59>>,
      \* r : "a"; x : "b";
      <<114, 32, 58, 32, 34, 97, 34, 59, 32, 120, 32, 58, 32, 34, 98, 34,
      59>>,
      \* r : "a"; r : "b";
      <<114, 32, 58, 32, 34, 97, 34, 59, 32, 114, 32, 58, 32, 34, 98, 34,
      59>>,
      \* r : ;
      <<114, 32, 58, 32, 59>>,
      \* r : "a" | ;
      <<114, 32, 58, 32, 34, 97, 34, 32, 124, 32, 59>>,
      \* r : "a"
      <<114, 32, 58, 32, 34, 97, 34>>,
      \* r bogus : "a";
      <<114, 32, 98, 111, 103, 117, 115, 32, 58, 32, 34, 97, 34, 59>>,
      \* 1r : "a";
      <<49, 114, 32, 58, 32, 34, 97, 34, 59>>,
      \* # c\nr : x+ ; x inline : [0-9] ;
      <<35, 32, 99, 10, 114, 32, 58, 32, 120, 43, 32, 59, 32, 120, 32,
      105, 110, 108, 105, 110, 101, 32, 58, 32, 91, 48, 45, 57, 93, 32,
      59>>,
      \* r : ("a" | x)* ; x : [^a] ;
      <<114, 32, 58, 32, 40, 34, 97, 34, 32, 124, 32, 120, 41, 42, 32, 59,
      32, 120, 32, 58, 32, 91, 94, 97, 93, 32, 59>>,
      \* r : ("a" | y)+ ;
      <<114, 32, 58, 32, 40, 34, 97, 34, 32, 124, 32, 121, 41, 43, 32, 59>>,
      \* r : ("a" ;
      <<114, 32, 58, 32, 40, 34, 97, 34, 32, 59>>,
      \* r : [^a-z];
      <<114, 32, 58, 32, 91, 94, 97, 45, 122, 93, 59>>,
      \* r : [a-zA-Z] "\\"" ;
      <<114, 32, 58, 32, 91, 97, 45, 122, 65, 45, 90, 93, 32, 34, 92, 34,
      34, 32, 59>>,
      \* r : "a"?*;
      <<114, 32, 58, 32, 34, 97, 34, 63, 42, 59>>,
      \* r : ("a")+?;
      <<114, 32, 58, 32, 40, 34, 97, 34, 41, 43, 63, 59>>,
      \* r : "a"?*+;
      <<114, 32, 58, 32, 34, 97, 34, 63, 42, 43, 59>>,
      \* r : [z-a];
      <<114, 32, 58, 32, 91, 122, 45, 97, 93, 59>>,
      \* r:x;x:y;y:z;
      <<114, 58, 120, 59, 120, 58, 121, 59, 121, 58, 122, 59>>,
      \* r : x y ;\nx discard : "a" ;\r\ny mergeup : r? ;
      <<114, 32, 58, 32, 120, 32, 121, 32, 59, 10, 120, 32, 100, 105, 115,
      99, 97, 114, 100, 32, 58, 32, 34, 97, 34, 32, 59, 13, 10, 121, 32,
      109, 101, 114, 103, 101, 117, 112, 32, 58, 32, 114, 63, 32, 59>>,
      \* r : "a" "b" | "c" ;
      <<114, 32, 58, 32, 34, 97, 34, 32, 34, 98, 34, 32, 124, 32, 34, 99,
      34, 32, 59>>,
      \* r :\r\n\t"a"\n | x ;\r x : "b" ;
      <<114, 32, 58, 13, 10, 9, 34, 97, 34, 10, 32, 124,
      32, 120, 32, 59, 13, 32, 120, 32, 58, 32, 34, 98, 34, 32, 59>>,
      \* num : digit+ ;  digit inline : [0-9] ;
      <<110, 117, 109, 32, 58, 32, 100, 105, 103, 105, 116, 43, 32, 59,
      32, 32, 100, 105, 103, 105, 116, 32, 105, 110, 108, 105, 110, 101,
      32, 58, 32, 91, 48, 45, 57, 93, 32, 59>>,
      \* digit inline : [0-9] ;  num : digit+ ;
      <<100, 105, 103, 105, 116, 32, 105, 110, 108, 105, 110, 101, 32, 58,
      32, 91, 48, 45, 57, 93, 32, 59, 32, 32, 110, 117, 109, 32, 58, 32,
      100, 105, 103, 105, 116, 43, 32, 59>>,
      \* r : "b"? [^a] [1-c!b]* ;
      <<114, 32, 58, 32, 34, 98, 34, 63, 32, 91, 94, 97, 93, 32, 91, 49,
      45, 99, 33, 98, 93, 42, 32, 59>>
    }

MainFrame(argc, fopen_ok, file) ==
    [k |-> "ipg", pc |-> "argc", argc |-> argc, fopen_ok |-> fopen_ok, file |-> file,
     buf |-> <<>>, ok |-> FALSE, parse_ret |-> "none", check_ret |-> "none",
     rules_left |-> <<>>, out |-> <<>>, err |-> <<>>, exit |-> -1]

GenInit ==
    /\ gram = EmptyGrammar
    /\ m_text = <<>>
    /\ tail = <<>>
    /\ m_pos = 0 /\ m_line = 1 /\ m_col = 1
    /\ m_pos_ok = 0 /\ m_line_ok = 1 /\ m_col_ok = 1
    /\ \E argc \in {1, 2}, fopen_ok \in BOOLEAN, file \in GrammarTexts :
          stack = <<MainFrame(argc, fopen_ok, file)>>
    /\ ev = [t |-> "init"]
    /\ reached = 0

\* the cursor of ParseGen with what has been written to stderr
Cur == [pos |-> m_pos, line |-> m_line, col |-> m_col, err |-> stack[1].err]

\* return 1; behind an eprintln
main_fails(f, msg) == [f EXCEPT !.err = Append(@, msg), !.exit = 1, !.pc = "exit"]

\* if (argc < 2) { eprintln("Usage: ...); return 1; }
MainArgc ==
    /\ stack[1].k = "ipg" /\ stack[1].pc = "argc"
    /\ stack' = <<IF stack[1].argc < 2
                  THEN main_fails(stack[1], [msg |-> "Usage:"])
                  ELSE [stack[1] EXCEPT !.pc = "fopen"]>>
    /\ ev' = [t |-> "main", pc |-> "argc"]
    /\ UNCHANGED <<gram, m_text, tail, m_pos, m_line, m_col, m_pos_ok, m_line_ok, m_col_ok, reached>>

\* fp = fopen(argv[1], "rb"); if (nullptr == fp) { ...; return 1; }
MainFopen ==
    /\ stack[1].k = "ipg" /\ stack[1].pc = "fopen"
    /\ stack' = <<IF ~stack[1].fopen_ok
                  THEN main_fails(stack[1], [msg |-> "ERROR opening file"])
                  ELSE [stack[1] EXCEPT !.pc = "fread"]>>
    /\ ev' = [t |-> "main", pc |-> "fopen"]
    /\ UNCHANGED <<gram, m_text, tail, m_pos, m_line, m_col, m_pos_ok, m_line_ok, m_col_ok, reached>>

\* file_len is taken, buf allocated and NUL-terminated, and fread gives
\* bytes_read: all of the file, or nothing of a file that is not empty
MainFread ==
    /\ stack[1].k = "ipg" /\ stack[1].pc = "fread"
    /\ \E bytes_read \in {0, Len(stack[1].file)} :
          stack' = <<IF bytes_read # Len(stack[1].file)
                     THEN main_fails([stack[1] EXCEPT !.err =
                                         Append(@, [msg |-> "file_len =", n |-> Len(stack[1].file)])],
                                     [msg |-> "ERROR reading file"])
                     ELSE [stack[1] EXCEPT
                              !.err = @ \o <<[msg |-> "file_len =", n |-> Len(stack[1].file)],
                                             [msg |-> "read:", n |-> bytes_read]>>,
                              !.buf = stack[1].file, !.pc = "parse_grammar"]>>
    /\ ev' = [t |-> "main", pc |-> "fread"]
    /\ UNCHANGED <<gram, m_text, tail, m_pos, m_line, m_col, m_pos_ok, m_line_ok, m_col_ok, reached>>

\* pg.parse_grammar(node, buf) up to its loop of rules
ParseGrammar ==
    /\ stack[1].k = "ipg" /\ stack[1].pc = "parse_grammar"
    /\ m_text' = stack[1].buf
    /\ m_pos' = parse_grammar_head(stack[1].buf, Cur).pos
    /\ m_line' = parse_grammar_head(stack[1].buf, Cur).line
    /\ m_col' = parse_grammar_head(stack[1].buf, Cur).col
    /\ stack' = <<[stack[1] EXCEPT !.pc = "parse_rule"]>>
    /\ ev' = [t |-> "main", pc |-> "parse_grammar"]
    /\ UNCHANGED <<gram, tail, m_pos_ok, m_line_ok, m_col_ok, reached>>

\* the state behind one parse_rule of the loop, r what it gave: the loop
\* goes on, or parse_grammar returns false to main
parse_rule_done(r) ==
    /\ m_pos' = r.s.pos /\ m_line' = r.s.line /\ m_col' = r.s.col
    /\ gram' = r.g
    /\ stack' = <<IF r.ok
                  THEN [stack[1] EXCEPT !.err = r.s.err]
                  ELSE [stack[1] EXCEPT !.err = r.s.err, !.ok = FALSE,
                                        !.parse_ret = "false", !.pc = "check_rules"]>>
    /\ ev' = [t |-> "parse_rule", ok |-> r.ok]

\* while (m_text[m_pos] != '\0') { bool ok = parse_rule(node_w); ... }
ParseRule ==
    /\ stack[1].k = "ipg" /\ stack[1].pc = "parse_rule"
    /\ gch(m_text, m_pos) # 0
    /\ parse_rule_done(parse_rule(m_text, Cur, gram))
    /\ UNCHANGED <<m_text, tail, m_pos_ok, m_line_ok, m_col_ok, reached>>

\* the loop of rules ends at the NUL: parse_grammar returns true
ParseGrammarEnd ==
    /\ stack[1].k = "ipg" /\ stack[1].pc = "parse_rule"
    /\ gch(m_text, m_pos) = 0
    /\ stack' = <<[stack[1] EXCEPT !.ok = TRUE, !.parse_ret = "true", !.pc = "check_rules"]>>
    /\ ev' = [t |-> "main", pc |-> "parse_rule"]
    /\ UNCHANGED <<gram, m_text, tail, m_pos, m_line, m_col, m_pos_ok, m_line_ok, m_col_ok, reached>>

\* the state behind pg.check_rules(), c what it gave
check_rules_done(c) ==
    /\ gram' = c.g
    /\ stack' = <<[stack[1] EXCEPT !.err = @ \o c.err, !.ok = c.ok,
                                   !.check_ret = IF c.ok THEN "true" ELSE "false",
                                   !.pc = "emit"]>>

\* if (ok) ok = pg.check_rules();
CheckRules ==
    /\ stack[1].k = "ipg" /\ stack[1].pc = "check_rules"
    /\ IF stack[1].ok
       THEN check_rules_done(check_rules(gram))
       ELSE gram' = gram /\ stack' = <<[stack[1] EXCEPT !.pc = "emit"]>>
    /\ ev' = [t |-> "main", pc |-> "check_rules"]
    /\ UNCHANGED <<m_text, tail, m_pos, m_line, m_col, m_pos_ok, m_line_ok, m_col_ok, reached>>

\* (a slip: the parser is written whatever ok is)
emits_always(ok) == TRUE

\* if (ok) { pg.print_parser(); ... } else { eprintln(...); }
emits(ok) == ok

\* print_parser up to its loop of rules: the fixed head of the Parser class
\* and the line of parse(), which names the root rule
PrintParser ==
    /\ stack[1].k = "ipg" /\ stack[1].pc = "emit"
    /\ emits(stack[1].ok)
    /\ stack' = <<[stack[1] EXCEPT
                      !.out = @ \o <<[k |-> "head"], [k |-> "parse", root |-> gram.rule_root]>>,
                      !.rules_left = keys_in_order(DOMAIN gram.rules),
                      !.pc = "print_rule"]>>
    /\ ev' = [t |-> "main", pc |-> "emit"]
    /\ UNCHANGED <<gram, m_text, tail, m_pos, m_line, m_col, m_pos_ok, m_line_ok, m_col_ok, reached>>

\* for (auto rule : m_grammar.rules()) print_rule(rule.second);
PrintRule ==
    /\ stack[1].k = "ipg" /\ stack[1].pc = "print_rule"
    /\ stack[1].rules_left # <<>>
    /\ stack' = <<[stack[1] EXCEPT
                      !.out = Append(@, [k |-> "rule", rule |-> gram.rules[Head(stack[1].rules_left)]]),
                      !.rules_left = Tail(@)]>>
    /\ ev' = [t |-> "print_rule", name |-> Head(stack[1].rules_left)]
    /\ UNCHANGED <<gram, m_text, tail, m_pos, m_line, m_col, m_pos_ok, m_line_ok, m_col_ok, reached>>

\* println("};"); println("};"); and print_parser returns
PrintParserEnd ==
    /\ stack[1].k = "ipg" /\ stack[1].pc = "print_rule"
    /\ stack[1].rules_left = <<>>
    /\ stack' = <<[stack[1] EXCEPT !.out = Append(@, [k |-> "end"]), !.pc = "debug"]>>
    /\ ev' = [t |-> "main", pc |-> "print_rule"]
    /\ UNCHANGED <<gram, m_text, tail, m_pos, m_line, m_col, m_pos_ok, m_line_ok, m_col_ok, reached>>

\* pg.print_rules_debug(); eprintln("parsed successfully");
PrintRulesDebug ==
    /\ stack[1].k = "ipg" /\ stack[1].pc = "debug"
    /\ stack' = <<[stack[1] EXCEPT
                      !.err = @ \o <<[msg |-> "rules",
                                      names |-> keys_in_order(DOMAIN gram.rules)],
                                     [msg |-> "parsed successfully"]>>,
                      !.pc = "return"]>>
    /\ ev' = [t |-> "main", pc |-> "debug"]
    /\ UNCHANGED <<gram, m_text, tail, m_pos, m_line, m_col, m_pos_ok, m_line_ok, m_col_ok, reached>>

\* eprintln("ERROR parsing grammar near line ", pg.line(), ", col ", pg.col());
ReportError ==
    /\ stack[1].k = "ipg" /\ stack[1].pc = "emit"
    /\ ~emits(stack[1].ok)
    /\ stack' = <<[stack[1] EXCEPT
                      !.err = Append(@, [msg |-> "ERROR parsing grammar near",
                                         line |-> m_line, col |-> m_col]),
                      !.pc = "return"]>>
    /\ ev' = [t |-> "main", pc |-> "emit"]
    /\ UNCHANGED <<gram, m_text, tail, m_pos, m_line, m_col, m_pos_ok, m_line_ok, m_col_ok, reached>>

\* delete[] buf; return 0;
MainReturn ==
    /\ stack[1].k = "ipg" /\ stack[1].pc = "return"
    /\ stack' = <<[stack[1] EXCEPT !.exit = 0, !.pc = "exit"]>>
    /\ ev' = [t |-> "main", pc |-> "return"]
    /\ UNCHANGED <<gram, m_text, tail, m_pos, m_line, m_col, m_pos_ok, m_line_ok, m_col_ok, reached>>

NextGen ==
    \/ MainArgc
    \/ MainFopen
    \/ MainFread
    \/ ParseGrammar
    \/ ParseRule
    \/ ParseGrammarEnd
    \/ CheckRules
    \/ PrintParser
    \/ PrintRule
    \/ PrintParserEnd
    \/ PrintRulesDebug
    \/ ReportError
    \/ MainReturn

SpecGen == GenInit /\ [][NextGen]_vars

\* ------------------------------------------------------------------------
\* The primitives of the grammar parser, each called by itself, and
\* Rule::to_string.  The process is the one frame of stack: fn is the
\* primitive, entry the cursor it is called at, text the tokens elem.text()
\* holds at the call (for parse_ch_class_range and parse_char), ret what it
\* returned, out the elems, tokens or grammar it left, err what it wrote to
\* stderr.  m_text, m_pos, m_line and
\* m_col are the members of ParseGen.

\* the ranges a character class is made of
MaxRanges == 2

\* texts of one range:  a  _  a-c  z-b  \-  !b  !b-d  -  \q
RangeTexts ==
    {<<97>>, <<95>>, <<97, 45, 99>>, <<122, 45, 98>>, <<92, 45>>, <<33, 98>>,
     <<33, 98, 45, 100>>, <<45>>, <<92, 113>>}

RECURSIVE ConcatAll(_)
ConcatAll(ss) == IF ss = <<>> THEN <<>> ELSE Head(ss) \o ConcatAll(Tail(ss))

\* "[", with or without "^", ranges, with or without "]"
ClassTexts ==
    {((<<91>> \o caret) \o ConcatAll(rs)) \o close :
        caret \in {<<>>, <<94>>}, close \in {<<93>>, <<>>},
        rs \in SeqsUpTo(RangeTexts, MaxRanges) \ {<<>>}}

PrimTexts ==
    ClassTexts \cup GrammarTexts \cup
    {
      \* ab1_ x
      <<97, 98, 49, 95, 32, 120>>,
      \* 1a
      <<49, 97>>,
      \* "a"
      <<34, 97, 34>>,
      \* "a
      <<34, 97>>,
      \* "a\"b" c
      <<34, 97, 92, 34, 98, 34, 32, 99>>,
      \* ("a")
      <<40, 34, 97, 34, 41>>,
      \* ("a" ;
      <<40, 34, 97, 34, 32, 59>>,
      \* ("a" | )
      <<40, 34, 97, 34, 32, 124, 32, 41>>,
      \* ( "a"\n| "b" )
      <<40, 32, 34, 97, 34, 10, 124, 32, 34, 98, 34, 32, 41>>,
      \* (\n;
      <<40, 10, 59>>,
      \* "a" | "b"
      <<34, 97, 34, 32, 124, 32, 34, 98, 34>>,
      \* "a" |
      <<34, 97, 34, 32, 124>>,
      \* x y? ;
      <<120, 32, 121, 63, 32, 59>>,
      \* x | ;
      <<120, 32, 124, 32, 59>>,
      \* an empty text
      <<>>,
      \* [^a]
      <<91, 94, 97, 93>>,
      \* [!a-zA-Z]
      <<91, 33, 97, 45, 122, 65, 45, 90, 93>>,
      \* [a-z!m]
      <<91, 97, 45, 122, 33, 109, 93>>,
      \* [^a-z]
      <<91, 94, 97, 45, 122, 93>>,
      \* [_a-z]
      <<91, 95, 97, 45, 122, 93>>,
      \* [a-
      <<91, 97, 45>>,
      \* [\!a\^]
      <<91, 92, 33, 97, 92, 94, 93>>,
      \* [\--z!c]
      <<91, 92, 45, 45, 122, 33, 99, 93>>,
      \* [a\!b]
      <<91, 97, 92, 33, 98, 93>>,
      \* [\n-a!\u0041]
      <<91, 92, 110, 45, 97, 33, 92, 117, 48, 48, 52, 49, 93>>,
      \* [\"]
      <<91, 92, 34, 93>>,
      \* [\u0041]
      <<91, 92, 117, 48, 48, 52, 49, 93>>,
      \* [\u004]
      <<91, 92, 117, 48, 48, 52, 93>>,
      \* [\U0000004a]
      <<91, 92, 85, 48, 48, 48, 48, 48, 48, 52, 97, 93>>,
      \* [\U80000000]
      <<91, 92, 85, 56, 48, 48, 48, 48, 48, 48, 48, 93>>,
      \* [\UFFFFFFFF]
      <<91, 92, 85, 70, 70, 70, 70, 70, 70, 70, 70, 93>>,
      \* [\U0000004]
      <<91, 92, 85, 48, 48, 48, 48, 48, 48, 52, 93>>,
      \* [e-acute]  (c3 a9)
      <<91, 195, 169, 93>>,
      \* [euro]  (e2 82 ac)
      <<91, 226, 130, 172, 93>>,
      \* [U+1F600]  (f0 9f 98 80)
      <<91, 240, 159, 152, 128, 93>>,
      \* [ and the bytes c3 c3 ]
      <<91, 195, 195, 93>>,
      \* [ and the bytes c3 a ]
      <<91, 195, 97, 93>>,
      \* [ and the byte a9 ]
      <<91, 169, 93>>,
      \* "e-acute"  (c3 a9 between the quotes)
      <<34, 195, 169, 34>>,
      \* "\\"x"
      <<34, 92, 92, 34, 120, 34>>,
      \* "a\nb"  (a newline byte between the quotes)
      <<34, 97, 10, 98, 34>>
    }

Primitives ==
    {"parse_id", "parse_string", "parse_ch_class", "parse_ch_class_range", "parse_char",
     "parse_group", "parse_element", "parse_alt", "parse_alts", "parse_rule"}

\* std::string Elem::to_string()
RECURSIVE elem_to_string(_)
elem_to_string(elem) ==
    (IF Len(elem.sub_elems) > 0
     THEN ((IF elem.type = "ALT" THEN <<32, 124>>
            ELSE IF elem.type = "GROUP" THEN <<32, 40>> ELSE <<>>)
           \o ConcatAll([i \in 1..Len(elem.sub_elems) |-> elem_to_string(elem.sub_elems[i])]))
          \o (IF elem.type = "GROUP" THEN <<32, 41>> ELSE <<>>)
     ELSE ConcatAll([i \in 1..Len(elem.text) |-> <<32>> \o elem.text[i]]))
    \o (CASE elem.quantifier = "ONE" -> <<>>
          [] elem.quantifier = "ZERO_ONE" -> <<63>>
          [] elem.quantifier = "ZERO_PLUS" -> <<42>>
          [] elem.quantifier = "ONE_PLUS" -> <<43>>)

\* std::string Rule::to_string()
rule_to_string(rule) ==
    (rule.name \o <<32, 58>>)
    \o ConcatAll([i \in 1..Len(rule.elems) |-> elem_to_string(rule.elems[i])])

\* the call of the primitive fn at the cursor s of the text T, text what
\* elem.text() holds; parse_rule gives its bool as 1 or 0 and the grammar it
\* left
prim_call(fn, T, s, text) ==
    CASE fn = "parse_id" -> parse_id(T, s)
      [] fn = "parse_string" -> parse_string(T, s, <<>>)
      [] fn = "parse_ch_class" -> parse_ch_class(T, s, <<>>)
      [] fn = "parse_ch_class_range" -> parse_ch_class_range(T, s, text)
      [] fn = "parse_char" -> parse_char(T, s, text)
      [] fn = "parse_group" -> parse_group(T, s, <<>>)
      [] fn = "parse_element" -> parse_element(T, s, <<>>, 0)
      [] fn = "parse_alt" -> parse_alt(T, s, <<>>, 0)
      [] fn = "parse_alts" -> parse_alts(T, s, <<>>, 0, FALSE)
      [] fn = "parse_rule" -> Res(parse_rule(T, s, EmptyGrammar).s,
                                  IF parse_rule(T, s, EmptyGrammar).ok THEN 1 ELSE 0,
                                  parse_rule(T, s, EmptyGrammar).g)

\* parse_ch_class_range and parse_char are called from parse_ch_class, behind
\* the "[" and the "^" it has taken and pushed; the other primitives are
\* called at the start of the text.  first is the rule a first parse_rule
\* stored, once its to_string has become the text
PrimInit ==
    /\ gram = EmptyGrammar
    /\ tail = <<>>
    /\ m_pos_ok = 0 /\ m_line_ok = 1 /\ m_col_ok = 1
    /\ \E fn \in Primitives, T \in PrimTexts :
          /\ fn \in {"parse_ch_class_range", "parse_char"} => gch(T, 0) = 91
          /\ m_text = T
          /\ m_pos = IF fn \notin {"parse_ch_class_range", "parse_char"} THEN 0
                     ELSE IF gch(T, 1) = 94 THEN 2 ELSE 1
          /\ m_line = 1
          /\ m_col = 1 + m_pos
          /\ stack = <<[k |-> "prim", pc |-> "call", fn |-> fn,
                        entry |-> [pos |-> m_pos, line |-> 1, col |-> 1 + m_pos],
                        text |-> [i \in 1..m_pos |-> <<T[i]>>],
                        ret |-> 0, out |-> <<>>, err |-> <<>>, first |-> <<>>]>>
    /\ ev = [t |-> "init"]
    /\ reached = 0

\* the state behind the call, r what the primitive gave
prim_returns(r) ==
    /\ m_pos' = r.s.pos /\ m_line' = r.s.line /\ m_col' = r.s.col
    /\ stack' = <<[stack[1] EXCEPT !.pc = "ret", !.ret = r.len, !.out = r.out,
                                   !.err = r.s.err]>>

\* the primitive fn is called and returns
Call(fn) ==
    /\ stack[1].k = "prim" /\ stack[1].pc = "call" /\ stack[1].fn = fn
    /\ prim_returns(prim_call(fn, m_text, Cur, stack[1].text))
    /\ ev' = [t |-> "prim", fn |-> fn]
    /\ UNCHANGED <<gram, m_text, tail, m_pos_ok, m_line_ok, m_col_ok, reached>>

\* the rule a first parse_rule stored is written with Rule::to_string, and
\* what it gives is the text of a second parse_rule
RuleToString ==
    /\ stack[1].k = "prim" /\ stack[1].pc = "ret" /\ stack[1].fn = "parse_rule"
    /\ stack[1].ret = 1 /\ stack[1].first = <<>>
    /\ m_text' = rule_to_string(stack[1].out.rules[stack[1].out.rule_root])
    /\ m_pos' = 0 /\ m_line' = 1 /\ m_col' = 1
    /\ stack' = <<[stack[1] EXCEPT !.pc = "call", !.ret = 0, !.out = <<>>, !.err = <<>>,
                                   !.first = <<stack[1].out.rules[stack[1].out.rule_root]>>]>>
    /\ ev' = [t |-> "to_string"]
    /\ UNCHANGED <<gram, tail, m_pos_ok, m_line_ok, m_col_ok, reached>>

NextPrim ==
    \/ Call("parse_id")
    \/ Call("parse_string")
    \/ Call("parse_ch_class")
    \/ Call("parse_ch_class_range")
    \/ Call("parse_char")
    \/ Call("parse_group")
    \/ Call("parse_element")
    \/ Call("parse_alt")
    \/ Call("parse_alts")
    \/ Call("parse_rule")
    \/ RuleToString

SpecPrim == PrimInit /\ [][NextPrim]_vars

\* ------------------------------------------------------------------------
\* the reference backtracking interpretation of a grammar on the input:
\* ordered choice, every alternate tried from the position where the
\* alternates block began, greedy repetition.  Each operator yields the
\* position behind the match, or -1.

Done == Len(stack) = 1 /\ stack[1].k = "main" /\ stack[1].ph = "ret"

RECURSIVE RefAlts(_, _, _), RefSeq(_, _, _), RefElem(_, _), RefStar(_, _), RefOnce(_, _)

RefAlts(alts, i, p) ==
    IF i > Len(alts) THEN -1
    ELSE LET q == RefSeq(alts[i].sub_elems, 1, p)
         IN  IF q # -1 THEN q ELSE RefAlts(alts, i + 1, p)

RefSeq(elems, j, p) ==
    IF j > Len(elems) THEN p
    ELSE LET q == RefElem(elems[j], p)
         IN  IF q = -1 THEN -1 ELSE RefSeq(elems, j + 1, q)

RefElem(e, p) ==
    LET q == RefOnce(e, p)
    IN  CASE e.quantifier = "ONE" -> q
          [] e.quantifier = "ZERO_ONE" -> IF q = -1 THEN p ELSE q
          [] e.quantifier = "ZERO_PLUS" -> RefStar(e, p)
          [] e.quantifier = "ONE_PLUS" -> IF q = -1 THEN -1 ELSE RefStar(e, q)

RefStar(e, p) ==
    LET q == RefOnce(e, p)
    IN  IF q = -1 \/ q = p THEN p ELSE RefStar(e, q)

RefOnce(e, p) ==
    CASE e.type = "NAME" -> RefAlts(gram.rules[e.text[1]].elems, 1, p)
      [] e.type = "GROUP" -> RefAlts(e.sub_elems, 1, p)
      [] e.type = "STRING" ->
            LET str == c_str(e.text[1])
            IN  IF /\ p + Len(str) <= Len(m_text)
                   /\ \A k \in 1..Len(str) : m_text[p + k] = str[k]
                THEN p + Len(str) ELSE -1
      [] e.type = "CH_CLASS" ->
            LET d == utf8_to_int32(SubSeq(m_text, p + 1, Len(m_text)))
            IN  IF p < Len(m_text) /\ d.len > 0 /\ class_expr(e.text, d.num)
                THEN p + d.len ELSE -1

RefParse == RefAlts(gram.rules[gram.rule_root].elems, 1, 0)

\* ------------------------------------------------------------------------
\* properties

\* C1: when parse returns, it has succeeded with n bytes consumed if and
\* only if the reference interpretation matches exactly the first n bytes
C1_EmittedMatchesReference ==
    Done => IF RefParse = -1 THEN stack[1].ret = 0
            ELSE stack[1].ret # 0 /\ m_pos = RefParse

\* C2: an element that fails puts m_pos back to where its alternate began,
\* and every alternate of a block begins where the block began
C2_AltRollsBackToItsStart ==
    /\ (ev.t = "elem" /\ ~ev.ok) => m_pos = ev.a_pos
    /\ ev.t = "alt_begin" => m_pos = ev.block_pos

\* C3: a rule function that returns RET_FAIL leaves (pos, line, col) as
\* they were when it was entered
C3_RuleFailRestoresCursor ==
    (ev.t = "rule_ret" /\ ev.ret = 0) =>
        [pos |-> m_pos, line |-> m_line, col |-> m_col] = ev.entry

\* a rule has returned RET_FAIL after elements inside it had moved on
C3_Witness ==
    /\ ev.t = "rule_ret" /\ ev.ret = 0
    /\ m_pos_ok > ev.entry.pos /\ m_line_ok > ev.entry.line

\* C4: an alternate begins only while no alternate of its block has
\* succeeded, alternates begin in grammar order, and the success of an
\* alternate ends the block
C4_FirstSuccessEndsBlock ==
    /\ ev.t = "alt_begin" => (~ev.block_ok /\ ev.i = ev.tried + 1)
    /\ (ev.t = "alt_end" /\ ev.ok) => (Top.k = "alts" /\ Top.ph = "done")

\* an alternate has succeeded while later alternates of its block remain
C4_Witness ==
    /\ ev.t = "alt_end" /\ ev.ok
    /\ Top.k = "alts" /\ Top.i < Len(Top.alts)

\* C5: a `?` element whose attempt failed succeeds, the alternate goes on,
\* and m_pos is where it was before the element
C5_OptionalFailureConsumesNothing ==
    (ev.t = "elem" /\ ev.quantifier = "ZERO_ONE" /\ ev.okin = 0) =>
        /\ ev.ok
        /\ Top.k = "alt" /\ Top.ph \in {"elem", "end"}
        /\ m_pos = ev.e_pos

\* C6: ONE succeeds iff its attempt succeeded, `?` and `*` always succeed,
\* `+` succeeds iff at least one attempt succeeded before the failing one
C6_QuantifierOutcome ==
    ev.t = "elem" =>
        CASE ev.quantifier = "ONE" -> (ev.ok <=> ev.okin # 0) /\ ev.n <= 1
          [] ev.quantifier = "ZERO_ONE" -> ev.ok /\ ev.n <= 1
          [] ev.quantifier = "ZERO_PLUS" -> ev.ok /\ ev.okin = 0
          [] ev.quantifier = "ONE_PLUS" -> (ev.ok <=> ev.n > 0) /\ ev.okin = 0

\* a `+` element has succeeded after two attempts that succeeded
C6_Witness ==
    ev.t = "elem" /\ ev.quantifier = "ONE_PLUS" /\ ev.ok /\ ev.n = 2

IsPrefix(a, b) == Len(a) <= Len(b) /\ SubSeq(b, 1, Len(a)) = a

\* C7: a rule that succeeds: without modifier appends one node labelled
\* with its name to parent and returns RET_OK; discard appends nothing and
\* returns RET_OK; inline appends nothing and returns RET_INLINE; mergeup
\* has put its children into parent, adds no node of its own and returns
\* RET_OK
C7_ModifierShapesTree ==
    (ev.t = "rule_ret" /\ ev.ret # 0) =>
        CASE ev.mod = "" ->
               /\ ev.ret = 1
               /\ ev.parent_body = ev.parent_in
               /\ Len(ev.parent_out) = Len(ev.parent_in) + 1
               /\ SubSeq(ev.parent_out, 1, Len(ev.parent_in)) = ev.parent_in
               /\ ev.parent_out[Len(ev.parent_out)].text = ev.name
               /\ ev.parent_out[Len(ev.parent_out)].pos = ev.entry.pos
          [] ev.mod = "discard" -> ev.ret = 1 /\ ev.parent_out = ev.parent_in
          [] ev.mod = "inline" -> ev.ret = 2 /\ ev.parent_out = ev.parent_in
          [] ev.mod = "mergeup" ->
               /\ ev.ret = 1
               /\ ev.astn = <<>>
               /\ IsPrefix(ev.parent_in, ev.parent_body)
               /\ ev.parent_out = ev.parent_body

\* a mergeup rule has succeeded and its children are in parent
C7_Witness ==
    /\ ev.t = "rule_ret" /\ ev.ret # 0 /\ ev.mod = "mergeup"
    /\ Len(ev.parent_out) > Len(ev.parent_in)

\* C8 (as stated): num : digit+ ; digit inline : [0-9] ; on the input 12
\* yields one num node with a single child whose text is 12
C8_InlineRepeatOneSpan ==
    (Done /\ gram = GramInline /\ m_text = <<49, 50>>) =>
        stack[1].astn =
            <<ASTNode(0, <<110, 117, 109>>, <<ASTNode(0, <<49, 50>>, <<>>)>>)>>

\* C8 (amended): the num node has one child for every iteration of digit+,
\* with the texts 1 and 2
C8_InlineRepeatOneChildPerIteration ==
    (Done /\ gram = GramInline /\ m_text = <<49, 50>>) =>
        /\ stack[1].ret = 1
        /\ stack[1].astn =
              <<ASTNode(0, <<110, 117, 109>>,
                        <<ASTNode(0, <<49>>, <<>>), ASTNode(1, <<50>>, <<>>)>>)>>

\* the parse of 12 with the num/digit grammar has returned
C8_Witness ==
    Done /\ gram = GramInline /\ m_text = <<49, 50>> /\ m_pos = 2

\* C9: m_pos_ok never decreases; behind an element that succeeded
\* m_pos_ok >= m_pos; when parse returns m_pos_ok is the greatest position
\* at which an element succeeded and m_pos <= m_pos_ok
C9_FurthestState ==
    /\ (ev.t = "elem" /\ ev.ok) => m_pos_ok >= m_pos
    /\ m_pos_ok = reached
    /\ Done => m_pos <= m_pos_ok

C9_FurthestProgress ==
    []C9_FurthestState /\ [][m_pos_ok' >= m_pos_ok]_vars

\* parse has returned RET_FAIL with the cursor back at 0 and m_pos_ok
\* behind it
C9_Witness ==
    Done /\ stack[1].ret = 0 /\ m_pos = 0 /\ m_pos_ok >= 2

\* C10: the generator writes parser source to standard output only after
\* parse_grammar and check_rules have both returned true; in a run where
\* either fails, or is never reached, standard output stays empty
C10_EmitsOnlyAfterBothSucceed ==
    /\ stack[1].out # <<>> => stack[1].parse_ret = "true" /\ stack[1].check_ret = "true"
    /\ (stack[1].pc = "exit" /\ ~(stack[1].parse_ret = "true" /\ stack[1].check_ret = "true"))
          => stack[1].out = <<>>

\* the parser has been written in full and main has returned
C10_Witness ==
    /\ stack[1].pc = "exit"
    /\ stack[1].parse_ret = "true" /\ stack[1].check_ret = "true"
    /\ Len(stack[1].out) >= 4

\* C11: the generator exits with status 0 exactly when it succeeded
\* (parse_grammar and check_rules both returned true), and with status 1 on
\* every error: missing argument, open failure, read failure, grammar parse
\* failure, validation failure
C11_ExitStatusTellsSuccess ==
    stack[1].pc = "exit" =>
        (stack[1].exit = 0 <=> (stack[1].parse_ret = "true" /\ stack[1].check_ret = "true"))

\* the names of the NAME elements of elem, those nested in ALT and GROUP
\* elements included
RECURSIVE NamesIn(_)
NamesIn(elem) ==
    IF elem.type = "NAME" THEN {elem.text[1]}
    ELSE UNION {NamesIn(elem.sub_elems[i]) : i \in 1..Len(elem.sub_elems)}

\* the names rule n of g refers to; a name without a rule refers to none
RefsOf(g, n) ==
    IF n \in DOMAIN g.rules
    THEN UNION {NamesIn(g.rules[n].elems[i]) : i \in 1..Len(g.rules[n].elems)}
    ELSE {}

\* the least set of names that holds the root and, with a name, every name
\* its rule refers to
ReachableFromRoot(g) ==
    LET names == {g.rule_root} \cup DOMAIN g.rules \cup UNION {RefsOf(g, n) : n \in DOMAIN g.rules}
        closed(R) == g.rule_root \in R /\ \A n \in R : RefsOf(g, n) \subseteq R
    IN  CHOOSE R \in SUBSET names : closed(R) /\ \A R2 \in SUBSET names : closed(R2) => R \subseteq R2

\* every NAME element reachable from the root names a defined rule, and every
\* defined rule is reached
RefsResolveAndAllReached(g) ==
    /\ \A n \in ReachableFromRoot(g) : RefsOf(g, n) \subseteq DOMAIN g.rules
    /\ DOMAIN g.rules \subseteq ReachableFromRoot(g)

DuplicateAhead ==
    /\ stack[1].pc = "parse_rule"
    /\ gch(m_text, m_pos) # 0
    /\ LET d == parse_id(m_text, parse_ws(m_text, Cur))
       IN  d.len > 0 /\ gstr(m_text, d.s.pos - d.len, d.len) \in DOMAIN gram.rules

\* C13: where a rule name is defined a second time, parse_rule returns false
\* at the second definition (parse_grammar fails), the rule stored by the
\* first definition is not overwritten and the root rule name is unchanged
C13_DuplicateRuleRefused ==
    [][DuplicateAhead => (stack'[1].parse_ret = "false" /\ gram' = gram)]_vars

\* parse_grammar has failed at the second definition of r, and the rule
\* stored for r still holds the "a" of its first definition
C13_Witness ==
    /\ stack[1].parse_ret = "false"
    /\ \E i \in 1..Len(stack[1].err) :
          stack[1].err[i] = [msg |-> "ERROR: duplicate rule name", name |-> <<114>>]
    /\ gram.rule_root = <<114>>
    /\ gram.rules[<<114>>].elems = <<AltElem(<<StringElem(<<97>>, "ONE")>>)>>

\* discard, inline, mergeup
ModifierKeywords ==
    {<<100, 105, 115, 99, 97, 114, 100>>, <<105, 110, 108, 105, 110, 101>>,
     <<109, 101, 114, 103, 101, 117, 112>>}

\* parse_rule is about to be called at a text that has, behind the rule
\* name, an identifier that is none of the three keywords
BogusModifierAhead ==
    /\ stack[1].pc = "parse_rule"
    /\ gch(m_text, m_pos) # 0
    /\ LET d == parse_id(m_text, parse_ws(m_text, Cur))
           md == parse_id(m_text, parse_ws(m_text, d.s))
       IN  /\ d.len > 0 /\ md.len > 0
           /\ gstr(m_text, md.s.pos - md.len, md.len) \notin ModifierKeywords

\* C14: behind every parse_rule, every rule stored in the grammar has a
\* modifier among "", discard, inline, mergeup; an identifier in the modifier
\* slot that is none of the three keywords makes parse_rule return false
C14_ModifiersFromClosedSet ==
    [][/\ \A n \in DOMAIN gram'.rules :
             gram'.rules[n].mod \in {"", "discard", "inline", "mergeup"}
       /\ BogusModifierAhead => stack'[1].parse_ret = "false"]_vars

\* parse_rule has returned false at `r bogus : "a";`, and the rule it stored
\* for r has no modifier
C14_Witness ==
    /\ stack[1].parse_ret = "false"
    /\ m_text = <<114, 32, 98, 111, 103, 117, 115, 32, 58, 32, 34, 97, 34, 59>>
    /\ DOMAIN gram.rules = {<<114>>}
    /\ gram.rules[<<114>>].mod = ""

\* the tokens of the element a primitive left last
LastText == stack[1].out[Len(stack[1].out)].text

\* parse_ch_class has returned success
ClassAccepted ==
    stack[1].k = "prim" /\ stack[1].fn = "parse_ch_class" /\ stack[1].pc = "ret"
    /\ stack[1].ret > 0

\* a token that is one unescaped reserved character:  ! - [ \ ] ^
IsReserved(tok) == Len(tok) = 1 /\ tok[1] \in {33, 45, 91, 92, 93, 94}

\* the tokens from i on are ranges up to the closing "]": each range is a
\* character or character "-" character, with or without "!" before it, no
\* character is an unescaped reserved one, and of two characters the lower
\* code point is below the upper
RECURSIVE RangesWellFormed(_, _)
RangesWellFormed(text, i) ==
    IF i >= Len(text) THEN i = Len(text) /\ text[i] = <<93>>
    ELSE LET j == IF text[i] = <<33>> THEN i + 1 ELSE i
         IN  /\ j < Len(text)
             /\ ~IsReserved(text[j])
             /\ IF j + 2 < Len(text) /\ text[j + 1] = <<45>>
                THEN /\ ~IsReserved(text[j + 2])
                     /\ decode_to_int32(text[j]).val < decode_to_int32(text[j + 2]).val
                     /\ RangesWellFormed(text, j + 3)
                ELSE RangesWellFormed(text, j + 1)

\* C15: in every character class parse_ch_class accepts, every two-character
\* range, the first and every later one, behind "^" or "!" or not, has its
\* lower code point below its upper one, and no character is an unescaped
\* reserved character
C15_AcceptedClassIsWellFormed ==
    ClassAccepted =>
        /\ LastText[1] = <<91>>
        /\ RangesWellFormed(LastText, IF LastText[2] = <<94>> THEN 3 ELSE 2)

\* well-formed classes without "!": ranges a, _, a-c, \- between "[" or "[^"
\* and "]"
GoodClassTexts ==
    {((<<91>> \o caret) \o ConcatAll(rs)) \o <<93>> :
        caret \in {<<>>, <<94>>},
        rs \in SeqsUpTo({<<97>>, <<95>>, <<97, 45, 99>>, <<92, 45>>}, MaxRanges) \ {<<>>}}

\* C16: parse_ch_class accepts every well-formed class whose two-character
\* ranges have lower < upper and whose reserved characters are escaped,
\* whatever precedes the range: a leading "^", a single character, earlier
\* ranges
C16_WellFormedClassAccepted ==
    (stack[1].k = "prim" /\ stack[1].fn = "parse_ch_class" /\ stack[1].pc = "ret"
        /\ m_text \in GoodClassTexts)
    => (stack[1].ret = Len(m_text) /\ m_pos = Len(m_text))

\* code points the emitted class expression is tried on:  !  A  a  b  c  m  z
ClassCodes == {33, 65, 97, 98, 99, 109, 122}

\* parse_ch_class has returned from the text T
ClassReturnedOn(T) ==
    stack[1].k = "prim" /\ stack[1].fn = "parse_ch_class" /\ stack[1].pc = "ret" /\ m_text = T

C18_FailureRestoresCursor ==
    (stack[1].k = "prim" /\ stack[1].pc = "ret" /\ stack[1].fn # "parse_rule"
        /\ stack[1].ret = -1)
    => (m_pos = stack[1].entry.pos /\ m_line = stack[1].entry.line
        /\ m_col = stack[1].entry.col)

\* C19: for every rule the grammar parser accepts, parsing the text that
\* Rule::to_string gives of it succeeds and yields a rule with the same
\* alternates, elements, kinds, tokens and quantifiers
C19_ToStringRoundTrip ==
    (stack[1].k = "prim" /\ stack[1].pc = "ret" /\ stack[1].fn = "parse_rule"
        /\ stack[1].first # <<>>)
    => (/\ stack[1].ret = 1
        /\ stack[1].out.rules[stack[1].out.rule_root].elems = stack[1].first[1].elems)

\* the bytes of T from i on are whitespace and comments only
RECURSIVE OnlyBlank(_, _, _)
OnlyBlank(T, i, in_comment) ==
    \/ i > Len(T)
    \/ IF in_comment THEN OnlyBlank(T, i + 1, T[i] \notin {10, 13})
       ELSE \/ T[i] \in {32, 9, 13, 10} /\ OnlyBlank(T, i + 1, FALSE)
            \/ T[i] = 35 /\ OnlyBlank(T, i + 1, TRUE)

\* main is behind parse_grammar, which was given a text without a rule
ParsedTextWithoutRule ==
    /\ stack[1].pc \in {"check_rules", "emit", "print_rule", "debug", "return"}
       \/ (stack[1].pc = "exit" /\ stack[1].exit = 0)
    /\ OnlyBlank(stack[1].buf, 1, FALSE)

RefCode(T, i) ==
    IF T[i] # 92 THEN [cp |-> T[i], next |-> i + 1]
    ELSE IF T[i + 1] = 117
    THEN [cp |-> ((hex_digit(T[i + 2]) * 4096 + hex_digit(T[i + 3]) * 256)
                  + hex_digit(T[i + 4]) * 16) + hex_digit(T[i + 5]),
          next |-> i + 6]
    ELSE [cp |-> c_escape(T[i + 1]), next |-> i + 2]

\* the ranges a class text is written with, from T[i] up to its "]": each
\* with whether a "!" marks it and its lowest and highest code point
RECURSIVE RefRanges(_, _)
RefRanges(T, i) ==
    IF i > Len(T) \/ T[i] = 93 THEN <<>>
    ELSE LET j == IF T[i] = 33 THEN i + 1 ELSE i
             lo == RefCode(T, j)
             dash == lo.next <= Len(T) /\ T[lo.next] = 45
             hi == IF dash THEN RefCode(T, lo.next + 1) ELSE lo
         IN  <<[marked |-> T[i] = 33, lo |-> lo.cp, hi |-> hi.cp]>> \o RefRanges(T, hi.next)

\* N xor (c is in no marked range and in some unmarked range), N whether
\* the class text begins with "[^"
RefClassHolds(T, c) ==
    LET rs == RefRanges(T, IF T[2] = 94 THEN 3 ELSE 2)
    IN  (T[2] = 94) #
        (/\ \A k \in 1..Len(rs) : rs[k].marked => ~(rs[k].lo <= c /\ c <= rs[k].hi)
         /\ \E k \in 1..Len(rs) : ~rs[k].marked /\ rs[k].lo <= c /\ c <= rs[k].hi)

\* C21: for every character class parse_ch_class accepts (written with
\* one-byte characters, one-character escapes and \uXXXX), the expression
\* emitted for it holds of a code point c exactly when N xor (c is in no
\* range marked with "!" and in some unmarked range), N being a leading
\* unescaped "^"; a single character is the range of that code point, and an
\* escaped "^", "!" or "-" is a character
C21_EmittedClassExpression ==
    (ClassAccepted /\ \A i \in 1..Len(m_text) : m_text[i] # 85 /\ m_text[i] < 128)
    => \A c \in 0..127 : class_expr(LastText, c) <=> RefClassHolds(m_text, c)

\* parse_ch_class has accepted [\--z!c], and the expression emitted for it
\* holds of "-" and of "b" and not of "c"
C21_Witness ==
    /\ ClassReturnedOn(<<91, 92, 45, 45, 122, 33, 99, 93>>) /\ ClassAccepted
    /\ class_expr(LastText, 45) /\ class_expr(LastText, 98) /\ ~class_expr(LastText, 99)

\* parse_char has returned from a call at a backslash
EscapeReturned ==
    /\ stack[1].k = "prim" /\ stack[1].fn = "parse_char" /\ stack[1].pc = "ret"
    /\ gch(m_text, stack[1].entry.pos) = 92

\* the bytes of T behind index i are n hex digits
HexDigits(T, i, n) == \A k \in 1..n : i + k <= Len(T) /\ hex_digit(T[i + k]) # -1

\* T has at index i (the byte behind a backslash) one of  a b f n r t v ! "
\* - [ \ ] ^ , or u and 4 hex digits, or U00 and 6 hex digits
EscapeForm(T, i) ==
    /\ i <= Len(T)
    /\ \/ T[i] \in {97, 98, 102, 110, 114, 116, 118, 33, 34, 45, 91, 92, 93, 94}
       \/ T[i] = 117 /\ HexDigits(T, i, 4)
       \/ T[i] = 85 /\ HexDigits(T, i, 8) /\ T[i + 1] = 48 /\ T[i + 2] = 48

\* C22: behind a backslash in a character class parse_char accepts exactly
\* the escapes a b f n r t v ! " - [ \ ] ^, u with 4 hex digits and U00 with
\* 6 hex digits, everything else fails (U with 8 hex digits that do not
\* begin with 00 too), and esc_to_int32 decodes every accepted escape to a
\* code point that is not negative
C22_EscapeForms ==
    EscapeReturned =>
        /\ stack[1].ret > 0 <=> EscapeForm(m_text, stack[1].entry.pos + 2)
        /\ stack[1].ret > 0 => esc_to_int32(stack[1].out[Len(stack[1].out)]) >= 0

\* parse_char has returned from a call at a byte with its high bit set
HighByteReturned ==
    /\ stack[1].k = "prim" /\ stack[1].fn = "parse_char" /\ stack[1].pc = "ret"
    /\ gbyte(m_text, stack[1].entry.pos) >= 128

\* C23: at a byte with its high bit set in a character class, parse_char
\* succeeds exactly on the sequences utf8_to_int32 decodes (a lead byte of a
\* 2-, 3- or 4-byte sequence and continuation bytes 10xxxxxx), stores the
\* sequence as one token and moves the cursor behind it
C23_Utf8CharsAccepted ==
    HighByteReturned =>
        LET d == utf8_to_int32(SubSeq(m_text, stack[1].entry.pos + 1, Len(m_text)))
        IN  /\ stack[1].ret > 0 <=> d.len > 0
            /\ d.len > 0 =>
                  /\ stack[1].ret = d.len
                  /\ m_pos = stack[1].entry.pos + d.len
                  /\ stack[1].out[Len(stack[1].out)]
                        = SubSeq(m_text, stack[1].entry.pos + 1, stack[1].entry.pos + d.len)

\* the length of the literal that opens T, i the index to look at and esc
\* whether the byte before it was an escaping backslash: bytes of 0x20 and
\* above are taken up to the first quote that is not escaped; 0 when a byte
\* below 0x20 or the end of T comes first
RECURSIVE RefLiteral(_, _, _)
RefLiteral(T, i, esc) ==
    IF i > Len(T) \/ T[i] < 32 THEN 0
    ELSE IF esc THEN RefLiteral(T, i + 1, FALSE)
    ELSE IF T[i] = 92 THEN RefLiteral(T, i + 1, TRUE)
    ELSE IF T[i] = 34 THEN i
    ELSE RefLiteral(T, i + 1, FALSE)

\* C24: at a quote parse_string accepts the literal up to the first quote
\* that is not escaped, bytes of 0x80 and above included, and stores its raw
\* text with both quotes and the escapes as one STRING token; a literal that
\* is not closed fails with the cursor as it was
C24_StringLiteral ==
    (stack[1].k = "prim" /\ stack[1].fn = "parse_string" /\ stack[1].pc = "ret"
        /\ gch(m_text, 0) = 34)
    => IF RefLiteral(m_text, 2, FALSE) > 0
       THEN /\ stack[1].ret = RefLiteral(m_text, 2, FALSE)
            /\ m_pos = RefLiteral(m_text, 2, FALSE)
            /\ stack[1].out = <<Elem("STRING", <<SubSeq(m_text, 1, RefLiteral(m_text, 2, FALSE))>>,
                                     "ONE", <<>>)>>
       ELSE /\ stack[1].ret = -1
            /\ m_pos = 0 /\ m_line = 1 /\ m_col = 1

\* the grammar text T has two quantifier characters side by side
TwoQuantifiers(T) ==
    \E i \in 1..(Len(T) - 1) : T[i] \in {63, 42, 43} /\ T[i + 1] \in {63, 42, 43}

\* C25: a grammar text in which an element is followed by two quantifier
\* characters, as in "a"?*, is refused: parse_grammar returns false
C25_SecondQuantifierRefused ==
    (stack[1].parse_ret # "none" /\ TwoQuantifiers(stack[1].buf))
    => stack[1].parse_ret = "false"

\* the index of the last "\n" among the first pos bytes of T, 0 without one
LastNewline(T, pos) ==
    IF \E i \in 1..pos : T[i] = 10
    THEN CHOOSE i \in 1..pos : T[i] = 10 /\ \A k \in (i + 1)..pos : T[k] # 10
    ELSE 0

\* C26: in every state of the grammar parser m_line is 1 plus the number of
\* "\n" bytes before m_pos, and m_col is 1 plus the number of bytes other
\* than "\r" between the last "\n" before m_pos and m_pos
C26_LineAndColumnFollowPos ==
    /\ m_pos <= Len(m_text)
    /\ m_line = 1 + Cardinality({i \in 1..m_pos : m_text[i] = 10})
    /\ m_col = 1 + Cardinality({i \in (LastNewline(m_text, m_pos) + 1)..m_pos : m_text[i] # 13})

\* parse_rule has returned behind two newlines, with a carriage return
\* consumed on the line the cursor is in
C26_Witness ==
    /\ stack[1].k = "prim" /\ stack[1].fn = "parse_rule" /\ stack[1].pc = "ret"
    /\ stack[1].ret = 1
    /\ m_line = 3 /\ m_col > 1
    /\ \E i \in (LastNewline(m_text, m_pos) + 1)..m_pos : m_text[i] = 13

\* the grammar has a `*` or `+` element whose attempt can succeed without
\* moving m_pos:  x* with x : "a"* ,  ("b"?)+
ZeroLoopGrammar == gram \in {GramZeroStar, GramZeroPlus}

\* the repetition loop of the root rule's first element is behind an attempt
AtZeroLoop ==
    /\ Len(stack) = 4 /\ Top.k = "alt" /\ Top.ph = "ret" /\ Top.j = 1

\* C27: for a `*` or `+` element whose element can succeed without consuming
\* input, every attempt of the repetition loop succeeds, so that the loop is
\* never left: the element never ends and the rule's function, and parse,
\* never return, whatever the input
C27_ZeroLoopNeverReturns ==
    ZeroLoopGrammar =>
        /\ AtZeroLoop => Top.okin # 0
        /\ ev.t = "elem" => Len(stack) > 4
        /\ ~(ev.t = "rule_ret" /\ ev.name = gram.rule_root)
        /\ ~Done

\* the loop of x* has gone round CounterCap times on the input aa, the last
\* attempt has succeeded where it began, and every round has added a node
C27_Witness ==
    /\ gram = GramZeroStar /\ m_text = <<97, 97>>
    /\ AtZeroLoop /\ Top.iters = CounterCap /\ Top.okin # 0
    /\ m_pos = 2 /\ Top.pos_start = 2
    /\ Len(stack[2].astn) > CounterCap

\* C28: in every state of the emitted parser 0 <= m_pos <= strlen(m_text): no
\* element consumes the terminating NUL or moves behind it, a negated
\* character class at the end of the input included
C28_CursorWithinInput ==
    stack[1].k \in {"main", "fault"} => (0 <= m_pos /\ m_pos <= Len(m_text))

\* C29: an attempt that fails leaves no node: when an alternate fails, the
\* node its elements add children to holds the children it held when the
\* alternate began, and a rule function that returns RET_FAIL, that of a
\* mergeup rule included, leaves the children of parent as they were
C29_FailedAttemptsLeaveNoNodes ==
    /\ (ev.t = "alt_end" /\ ~ev.completed) => ev.astn_out = ev.astn_in
    /\ (ev.t = "rule_ret" /\ ev.ret = 0) => ev.parent_out = ev.parent_in

\* an element of an alternate is about to begin, or the last one has ended
AtElemBoundary == Top.k = "alt" /\ Top.ph \in {"elem", "end"}

\* C30: at every element boundary of the emitted parser m_line is 1 plus the
\* number of "\n" bytes before m_pos and m_col is 1 plus the number of bytes
\* behind the last of them, whether a character class or a string literal
\* consumed them; and when an element that failed has put the cursor back,
\* m_line and m_col are what they were when the cursor last was at that m_pos
C30_EmittedLineAndColumnFollowPos ==
    /\ (AtElemBoundary /\ m_pos <= Len(m_text)) =>
          /\ m_line = 1 + Cardinality({i \in 1..m_pos : m_text[i] = 10})
          /\ m_col = 1 + (m_pos - LastNewline(m_text, m_pos))
    /\ (Top.k = "alt" /\ Top.ph = "fail") =>
          (m_pos = Top.pos_start /\ m_line = Top.at_line /\ m_col = Top.at_col)

====
